---- MODULE Spec2Model ----
(***************************************************************************)
(* Model of the story-gen session engine: the App state (src/src/app.rs),  *)
(* the key handler (src/src/input.rs), the control loop run_app            *)
(* (src/src/main.rs) and the turn worker advance_turn (src/src/api.rs).    *)
(*                                                                         *)
(* Texts are TLA+ strings; Option<T> is a sequence of length 0 (None) or 1 *)
(* (Some).  A Rust method taking &mut self is an operator from the App     *)
(* record to the App record.                                               *)
(***************************************************************************)
EXTENDS Integers, Sequences, FiniteSets, TLC

VARIABLES
    app,        \* the App record owned by the control loop
    debug,      \* the --debug flag read once in main()
    loop_pc,    \* position of the control loop inside one iteration
    workers,    \* the turn worker threads spawned so far, by spawn order
    appended,   \* history unit: the non-empty chunks appended since the last reset
    lastCall    \* history unit: the last App method called

vars == <<app, debug, loop_pc, workers, appended, lastCall>>

(***************************** Option<T> ***********************************)
None == <<>>
Some(x) == <<x>>
IsSome(o) == o # None
Unwrap(o) == o[1]

Min(a, b) == IF a < b THEN a ELSE b
Max(a, b) == IF a > b THEN a ELSE b

\* `let x = value`: the value is computed once and named in the body.
With(value, body(_)) == CHOOSE result \in {body(x) : x \in {value}} : TRUE

(******************************* str ***************************************)
CharAt(s, i) == SubSeq(s, i, i)

Whitespace == {" ", "\n", "\t", "\r"}

RECURSIVE trim_start(_)
trim_start(s) ==
    IF Len(s) = 0 THEN s
    ELSE IF Head(s) \in Whitespace THEN trim_start(Tail(s))
    ELSE s

RECURSIVE trim_end(_)
trim_end(s) ==
    IF Len(s) = 0 THEN s
    ELSE IF CharAt(s, Len(s)) \in Whitespace THEN trim_end(SubSeq(s, 1, Len(s) - 1))
    ELSE s

trim(s) == trim_end(trim_start(s))

starts_with(s, p) == Len(s) >= Len(p) /\ SubSeq(s, 1, Len(p)) = p

contains(s, p) ==
    \E i \in 1..(Len(s) - Len(p) + 1) : SubSeq(s, i, i + Len(p) - 1) = p

RECURSIVE trim_start_matches(_, _)
trim_start_matches(s, p) ==
    IF Len(p) > 0 /\ starts_with(s, p)
    THEN trim_start_matches(SubSeq(s, Len(p) + 1, Len(s)), p)
    ELSE s

UpperLetters == "ABCDEFGHIJKLMNOPQRSTUVWXYZ"
LowerLetters == "abcdefghijklmnopqrstuvwxyz"

char_to_lowercase(c) ==
    IF \E i \in 1..Len(UpperLetters) : CharAt(UpperLetters, i) = c
    THEN CharAt(LowerLetters, CHOOSE i \in 1..Len(UpperLetters) : CharAt(UpperLetters, i) = c)
    ELSE c

RECURSIVE to_lowercase(_)
to_lowercase(s) ==
    IF Len(s) = 0 THEN s ELSE char_to_lowercase(Head(s)) \o to_lowercase(Tail(s))

RECURSIVE join(_, _)
join(parts, sep) ==
    IF Len(parts) = 0 THEN ""
    ELSE IF Len(parts) = 1 THEN parts[1]
    ELSE parts[1] \o sep \o join(Tail(parts), sep)

(***************************** config.rs ***********************************)
MAX_HISTORY_ITEMS == 60

(******************************* app.rs ************************************)
GameState_new ==
    [ turn           |-> 0,
      location       |-> "Unknown",
      inventory      |-> <<>>,
      flags          |-> <<>>,
      active_speaker |-> None ]

\* push_log that writes over the last entry instead of adding one.
push_log_overwrites(a, kind, text) ==
    [a EXCEPT !.log = IF Len(@) = 0
                      THEN <<[kind |-> kind, speaker |-> None, text |-> text]>>
                      ELSE [@ EXCEPT ![Len(@)] = [kind |-> kind, speaker |-> None,
                                                  text |-> text]]]

push_log(a, kind, text) ==
    [a EXCEPT !.log = Append(@, [kind |-> kind, speaker |-> None, text |-> text])]

push_speaker_log(a, kind, speaker, text) ==
    [a EXCEPT !.log = Append(@, [kind |-> kind, speaker |-> Some(speaker), text |-> text])]

\* The field values App::new and App::reset both assign.
App_cleared ==
    [ input                  |-> "",
      log                    |-> <<>>,
      history                |-> <<>>,
      scroll                 |-> 0,
      busy                   |-> FALSE,
      pending_input          |-> None,
      last_sent_input        |-> None,
      pending_response       |-> None,
      scene_pending_response |-> None,
      state                  |-> GameState_new,
      status                 |-> "Ready",
      scene_ascii            |-> "Awaiting scene...",
      thinking_started       |-> None ]

App_new == push_log(App_cleared, "System", "Welcome! Describe what you do to begin.")

RECURSIVE history_item_count(_)
history_item_count(h) ==
    IF Len(h) = 0 THEN 0 ELSE Len(Head(h)) + history_item_count(Tail(h))

\* trim_history with the eviction loop left out.
trim_history_never(h) == h

\* trim_history evicting the newest chunk instead of the oldest.
RECURSIVE trim_history_newest(_)
trim_history_newest(h) ==
    IF history_item_count(h) > MAX_HISTORY_ITEMS /\ Len(h) > 0
    THEN trim_history_newest(SubSeq(h, 1, Len(h) - 1))
    ELSE h

RECURSIVE trim_history(_)
trim_history(h) ==
    IF history_item_count(h) > MAX_HISTORY_ITEMS
    THEN IF Len(h) = 0 THEN h ELSE trim_history(Tail(h))
    ELSE h

\* push_history_chunk without the early return on an empty item list.
push_history_chunk_no_guard(a, items) ==
    [a EXCEPT !.history = trim_history(Append(@, items))]

push_history_chunk(a, items) ==
    IF Len(items) = 0 THEN a
    ELSE [a EXCEPT !.history = trim_history(Append(@, items))]

DialogueExitPrefixes ==
    { "leave ", "leaving ", "walk away", "walk out", "run out", "head out",
      "step out", "exit", "go out", "go outside" }

DialogueExitPhrases ==
    { "leave the store", "leave the shop", "leave the bodega", "leave this place",
      "leave without", "walked out", "run out", "ran out", "sprint out", "head out",
      "step outside", "out of the store", "out of the shop", "out of the bodega",
      "i'm out", "i am out", "i'm gone", "i am gone", "far gone", "outside now",
      "outside the store", "outside the shop", "outside the bodega" }

is_dialogue_exit(text) ==
    LET lower   == to_lowercase(text)
        trimmed == trim(lower)
    IN  \/ \E p \in DialogueExitPrefixes : starts_with(trimmed, p)
        \/ \E p \in DialogueExitPhrases : contains(lower, p)

user_item(content) == [role |-> "user", content |-> content]

push_user_message(a, content) ==
    LET item == user_item(content)
        a1   == IF IsSome(a.state.active_speaker) /\ is_dialogue_exit(item.content)
                THEN [a EXCEPT !.state.active_speaker = None]
                ELSE a
    IN  push_history_chunk(a1, <<item>>)

\* reset that drops the pending response but leaves busy as it is.
reset_keeps_busy(a) ==
    push_log([App_cleared EXCEPT !.busy = a.busy],
             "System", "New game. Describe what you do to begin.")

\* reset that forgets to drop the pending turn handle and the busy flag.
reset_keeps_pending(a) ==
    push_log([App_cleared EXCEPT !.busy = a.busy,
                                 !.pending_response = a.pending_response],
             "System", "New game. Describe what you do to begin.")

reset(a) == push_log(App_cleared, "System", "New game. Describe what you do to begin.")

(*************************** app.rs: the scene ******************************)
\* str::replace("\r\n", "\n")
RECURSIVE replace_crlf(_)
replace_crlf(s) ==
    IF Len(s) = 0 THEN s
    ELSE IF starts_with(s, "\r\n") THEN "\n" \o replace_crlf(SubSeq(s, 3, Len(s)))
    ELSE Head(s) \o replace_crlf(Tail(s))

RECURSIVE trim_end_matches(_, _)
trim_end_matches(s, p) ==
    IF Len(p) > 0 /\ Len(s) >= Len(p) /\ SubSeq(s, Len(s) - Len(p) + 1, Len(s)) = p
    THEN trim_end_matches(SubSeq(s, 1, Len(s) - Len(p)), p)
    ELSE s

\* str::trim_matches('\n')
trim_matches_newline(s) == trim_end_matches(trim_start_matches(s, "\n"), "\n")

\* set_scene_ascii that stores a blank text as it is.
set_scene_ascii_keeps_blank(a, ascii) ==
    [a EXCEPT !.scene_ascii = trim_matches_newline(replace_crlf(ascii))]

set_scene_ascii(a, ascii) ==
    With(trim_matches_newline(replace_crlf(ascii)), LAMBDA text :
        IF Len(trim(text)) = 0
        THEN [a EXCEPT !.scene_ascii = "Awaiting scene..."]
        ELSE [a EXCEPT !.scene_ascii = text])

(************************* app.rs: the reply parser *************************)
Digits == "0123456789"

\* Letters outside ASCII; each takes two bytes in UTF-8.
NonAsciiLetters == {"é"}

is_alphabetic(c) ==
    contains(UpperLetters, c) \/ contains(LowerLetters, c) \/ c \in NonAsciiLetters
is_alphanumeric(c) == is_alphabetic(c) \/ contains(Digits, c)

eq_ignore_ascii_case(a, b) == to_lowercase(a) = to_lowercase(b)

\* str::find: the position (from 1) of the first occurrence of p in s.
find(s, p) ==
    IF contains(s, p)
    THEN Some(CHOOSE i \in 1..(Len(s) - Len(p) + 1) :
                /\ SubSeq(s, i, i + Len(p) - 1) = p
                /\ \A j \in 1..(i - 1) : SubSeq(s, j, j + Len(p) - 1) # p)
    ELSE None

\* A line of str::lines loses the "\r" of its "\r\n" ending.
strip_cr(line) ==
    IF Len(line) > 0 /\ CharAt(line, Len(line)) = "\r"
    THEN SubSeq(line, 1, Len(line) - 1) ELSE line

\* str::lines: split at "\n"; a final line ending opens no further line.
RECURSIVE lines(_)
lines(s) ==
    IF Len(s) = 0 THEN <<>>
    ELSE With(find(s, "\n"), LAMBDA nl :
            IF IsSome(nl)
            THEN <<strip_cr(SubSeq(s, 1, Unwrap(nl) - 1))>>
                   \o lines(SubSeq(s, Unwrap(nl) + 1, Len(s)))
            ELSE <<s>>)

is_narrator_label(label) == eq_ignore_ascii_case(trim(label), "narrator")

\* is_disallowed_speaker that lets every label through.
is_disallowed_speaker_never(label) == FALSE

is_disallowed_speaker(label) ==
    LET trimmed == trim(label)
    IN  \/ eq_ignore_ascii_case(trimmed, "you")
        \/ eq_ignore_ascii_case(trimmed, "player")
        \/ eq_ignore_ascii_case(trimmed, "user")

MAX_LABEL_LEN == 40

\* char::len_utf8
len_utf8(c) == IF c \in NonAsciiLetters THEN 2 ELSE 1

\* str::len: the length of the text in bytes.
RECURSIVE str_len(_)
str_len(s) == IF Len(s) = 0 THEN 0 ELSE len_utf8(Head(s)) + str_len(Tail(s))

\* Some([speaker, rest]) when the line opens with a valid "Label:", else None.
parse_speaker_label(line) ==
    With(trim_start(line), LAMBDA trimmed :
    With(find(trimmed, ":"), LAMBDA colon :
        IF ~IsSome(colon) THEN None
        ELSE With(trim(SubSeq(trimmed, 1, Unwrap(colon) - 1)), LAMBDA label :
            IF Len(label) = 0 \/ str_len(label) > MAX_LABEL_LEN THEN None
            ELSE IF ~\E i \in 1..Len(label) : is_alphabetic(CharAt(label, i)) THEN None
            ELSE IF ~\A i \in 1..Len(label) :
                       \/ is_alphanumeric(CharAt(label, i))
                       \/ CharAt(label, i) \in {" ", "'", "-"}
            THEN None
            ELSE Some([speaker |-> IF is_narrator_label(label) THEN "Narrator" ELSE label,
                       rest    |-> trim_start(SubSeq(trimmed, Unwrap(colon) + 1,
                                                     Len(trimmed)))]))))

\* split_whitespace().next() on a text that starts with no white space.
RECURSIVE first_token(_)
first_token(s) ==
    IF Len(s) = 0 \/ Head(s) \in Whitespace THEN ""
    ELSE Head(s) \o first_token(Tail(s))

RECURSIVE trim_start_non_alphanumeric(_)
trim_start_non_alphanumeric(s) ==
    IF Len(s) > 0 /\ ~is_alphanumeric(Head(s))
    THEN trim_start_non_alphanumeric(Tail(s)) ELSE s

RECURSIVE trim_end_non_alphanumeric(_)
trim_end_non_alphanumeric(s) ==
    IF Len(s) > 0 /\ ~is_alphanumeric(CharAt(s, Len(s)))
    THEN trim_end_non_alphanumeric(SubSeq(s, 1, Len(s) - 1)) ELSE s

\* trim_matches(|ch| !ch.is_alphanumeric())
trim_matches_non_alphanumeric(s) ==
    trim_end_non_alphanumeric(trim_start_non_alphanumeric(s))

ActionVerbs ==
    { "pick", "grab", "scoop", "tuck", "walk", "step", "run", "head", "move", "take",
      "reach", "turn", "open", "close", "enter", "leave", "slip", "push", "pull", "drop",
      "pocket", "lift", "set", "place", "climb", "kneel", "sit", "stand", "backflip",
      "sprint", "brush", "touch", "aim", "throw", "swing", "carry", "stow", "hold" }

starts_with_you_action(text) ==
    With(to_lowercase(trim_start(text)), LAMBDA lower :
        /\ starts_with(lower, "you ")
        /\ With(trim_matches_non_alphanumeric(
                    first_token(trim_start(trim_start_matches(lower, "you ")))),
                LAMBDA verb : Len(verb) > 0 /\ verb \in ActionVerbs))

SentenceBoundaries == {". ", "? ", "! "}

\* split_first_sentence that knows the boundary ". " alone.
split_first_sentence_period_only(text) ==
    With(find(text, ". "), LAMBDA found :
        IF IsSome(found)
        THEN With(trim(SubSeq(text, Unwrap(found) + 2, Len(text))), LAMBDA rest :
                [narration |-> trim(SubSeq(text, 1, Unwrap(found))),
                 dialogue  |-> IF Len(rest) = 0 THEN None ELSE Some(rest)])
        ELSE [narration |-> trim(text), dialogue |-> None])

\* [narration, dialogue]: the text up to the earliest sentence boundary and,
\* if anything is left behind it, the rest.
split_first_sentence(text) ==
    With({Unwrap(find(text, b)) : b \in {b \in SentenceBoundaries : contains(text, b)}},
         LAMBDA found :
            IF found # {}
            THEN With(CHOOSE i \in found : \A j \in found : i <= j, LAMBDA idx :
                 With(trim(SubSeq(text, idx + 2, Len(text))), LAMBDA rest :
                    [narration |-> trim(SubSeq(text, 1, idx)),
                     dialogue  |-> IF Len(rest) = 0 THEN None ELSE Some(rest)]))
            ELSE [narration |-> trim(text), dialogue |-> None])

\* split_misattributed_narration that never finds narration to split off.
split_misattributed_narration_never(text) == None

split_misattributed_narration(text) ==
    IF ~starts_with_you_action(text) THEN None
    ELSE With(trim(text), LAMBDA trimmed :
         With(find(trimmed, "\""), LAMBDA quote :
            IF IsSome(quote)
            THEN With(trim(SubSeq(trimmed, 1, Unwrap(quote) - 1)), LAMBDA narration :
                 With(trim(SubSeq(trimmed, Unwrap(quote), Len(trimmed))), LAMBDA dialogue :
                    IF Len(narration) = 0 THEN None
                    ELSE Some([narration |-> narration,
                               dialogue  |-> IF Len(dialogue) = 0 THEN None
                                             ELSE Some(dialogue)])))
            ELSE Some(split_first_sentence(trimmed))))

ParsedEntry(speaker, text) == [speaker |-> speaker, text |-> text]

\* push_or_merge_entry that never merges into the last entry.
push_or_merge_entry_no_merge(entries, speaker, text) ==
    IF Len(trim_end(text)) = 0 THEN entries
    ELSE Append(entries, ParsedEntry(speaker, trim_end(text)))

\* push_or_merge_entry that keeps a block whose text is empty.
push_or_merge_entry_keeps_empty(entries, speaker, text) ==
    With(trim_end(text), LAMBDA trimmed :
        IF Len(entries) > 0
           /\ eq_ignore_ascii_case(entries[Len(entries)].speaker, speaker)
        THEN [entries EXCEPT ![Len(entries)].text = @ \o "\n" \o trimmed]
        ELSE Append(entries, ParsedEntry(speaker, trimmed)))

push_or_merge_entry(entries, speaker, text) ==
    With(trim_end(text), LAMBDA trimmed :
        IF Len(trimmed) = 0 THEN entries
        ELSE IF Len(entries) > 0
                /\ eq_ignore_ascii_case(entries[Len(entries)].speaker, speaker)
        THEN [entries EXCEPT ![Len(entries)].text = @ \o "\n" \o trimmed]
        ELSE Append(entries, ParsedEntry(speaker, trimmed)))

\* The locals of parse_speaker_lines before its first line.
ParseStart ==
    [entries |-> <<>>, current_speaker |-> None, current_text |-> "", last_speaker |-> None]

\* parse_line in which a line of a disallowed speaker closes the open block.
parse_line_drop_closes_block(st, line) ==
    With(parse_speaker_label(line), LAMBDA parsed :
        IF IsSome(parsed)
        THEN With(Unwrap(parsed).speaker, LAMBDA speaker :
             With(Unwrap(parsed).rest, LAMBDA rest :
             With(IF IsSome(st.current_speaker)
                  THEN push_or_merge_entry(st.entries, Unwrap(st.current_speaker),
                                           trim_end(st.current_text))
                  ELSE st.entries, LAMBDA flushed :
                IF is_disallowed_speaker(speaker)
                THEN [entries         |-> flushed,
                      current_speaker |-> None,
                      current_text    |-> "",
                      last_speaker    |-> st.last_speaker]
                ELSE With(IF is_narrator_label(speaker) THEN None
                          ELSE split_misattributed_narration(rest), LAMBDA split :
                        IF IsSome(split)
                        THEN With(Unwrap(split).narration, LAMBDA narration :
                             With(Unwrap(split).dialogue, LAMBDA dialogue :
                             With(IF Len(narration) > 0
                                  THEN push_or_merge_entry(flushed, "Narrator", narration)
                                  ELSE flushed, LAMBDA narrated :
                                IF IsSome(dialogue)
                                THEN [entries         |-> narrated,
                                      current_speaker |-> Some(speaker),
                                      current_text    |-> Unwrap(dialogue),
                                      last_speaker    |-> Some(speaker)]
                                ELSE [entries         |-> narrated,
                                      current_speaker |-> None,
                                      current_text    |-> "",
                                      last_speaker    |-> IF Len(narration) > 0
                                                          THEN Some("Narrator")
                                                          ELSE st.last_speaker])))
                        ELSE [entries         |-> flushed,
                              current_speaker |-> Some(speaker),
                              current_text    |-> rest,
                              last_speaker    |-> Some(speaker)]))))
        ELSE [entries         |-> st.entries,
              current_speaker |-> IF IsSome(st.current_speaker) THEN st.current_speaker
                                  ELSE Some("Narrator"),
              current_text    |-> IF Len(st.current_text) > 0
                                  THEN st.current_text \o "\n" \o line
                                  ELSE line,
              last_speaker    |-> IF IsSome(st.current_speaker) THEN st.last_speaker
                                  ELSE Some("Narrator")])

\* The body of the loop `for line in text.lines()` of parse_speaker_lines.
parse_line(st, line) ==
    With(parse_speaker_label(line), LAMBDA parsed :
        IF IsSome(parsed)
        THEN With(Unwrap(parsed).speaker, LAMBDA speaker :
             With(Unwrap(parsed).rest, LAMBDA rest :
                IF is_disallowed_speaker(speaker) THEN st
                ELSE With(IF IsSome(st.current_speaker)
                          THEN push_or_merge_entry(st.entries, Unwrap(st.current_speaker),
                                                   trim_end(st.current_text))
                          ELSE st.entries, LAMBDA flushed :
                     With(IF is_narrator_label(speaker) THEN None
                          ELSE split_misattributed_narration(rest), LAMBDA split :
                        IF IsSome(split)
                        THEN With(Unwrap(split).narration, LAMBDA narration :
                             With(Unwrap(split).dialogue, LAMBDA dialogue :
                             With(IF Len(narration) > 0
                                  THEN push_or_merge_entry(flushed, "Narrator", narration)
                                  ELSE flushed, LAMBDA narrated :
                                IF IsSome(dialogue)
                                THEN [entries         |-> narrated,
                                      current_speaker |-> Some(speaker),
                                      current_text    |-> Unwrap(dialogue),
                                      last_speaker    |-> Some(speaker)]
                                ELSE [entries         |-> narrated,
                                      current_speaker |-> None,
                                      current_text    |-> "",
                                      last_speaker    |-> IF Len(narration) > 0
                                                          THEN Some("Narrator")
                                                          ELSE st.last_speaker])))
                        ELSE [entries         |-> flushed,
                              current_speaker |-> Some(speaker),
                              current_text    |-> rest,
                              last_speaker    |-> Some(speaker)]))))
        ELSE [entries         |-> st.entries,
              current_speaker |-> IF IsSome(st.current_speaker) THEN st.current_speaker
                                  ELSE Some("Narrator"),
              current_text    |-> IF Len(st.current_text) > 0
                                  THEN st.current_text \o "\n" \o line
                                  ELSE line,
              last_speaker    |-> IF IsSome(st.current_speaker) THEN st.last_speaker
                                  ELSE Some("Narrator")])

RECURSIVE parse_lines(_, _)
parse_lines(st, ls) ==
    IF Len(ls) = 0 THEN st
    ELSE With(parse_line(st, Head(ls)), LAMBDA next : parse_lines(next, Tail(ls)))

\* parse_speaker_lines without the flush of the open block after the loop.
parse_speaker_lines_no_final_flush(text) ==
    With(parse_lines(ParseStart, lines(text)), LAMBDA st :
        [entries |-> st.entries, last_speaker |-> st.last_speaker])

\* parse_speaker_lines that reports the speaker of the first block as the
\* trailing speaker.
parse_speaker_lines_first_speaker(text) ==
    With(parse_lines(ParseStart, lines(text)), LAMBDA st :
    With(IF IsSome(st.current_speaker)
         THEN push_or_merge_entry(st.entries, Unwrap(st.current_speaker),
                                  trim_end(st.current_text))
         ELSE st.entries, LAMBDA entries :
        [entries      |-> entries,
         last_speaker |-> IF Len(entries) > 0 THEN Some(entries[1].speaker)
                          ELSE st.last_speaker]))

\* ParsedReply: [entries, last_speaker].
parse_speaker_lines(text) ==
    With(parse_lines(ParseStart, lines(text)), LAMBDA st :
        [entries      |-> IF IsSome(st.current_speaker)
                          THEN push_or_merge_entry(st.entries, Unwrap(st.current_speaker),
                                                   trim_end(st.current_text))
                          ELSE st.entries,
         last_speaker |-> st.last_speaker])

RECURSIVE kept_lines(_)
kept_lines(ls) ==
    IF Len(ls) = 0 THEN <<>>
    ELSE With(parse_speaker_label(Head(ls)), LAMBDA parsed :
            IF IsSome(parsed) /\ is_disallowed_speaker(Unwrap(parsed).speaker)
            THEN kept_lines(Tail(ls))
            ELSE <<Head(ls)>> \o kept_lines(Tail(ls)))

strip_disallowed_speaker_lines(text) == join(kept_lines(lines(text)), "\n")

RECURSIVE push_entries(_, _)
push_entries(a, entries) ==
    IF Len(entries) = 0 THEN a
    ELSE push_entries(push_speaker_log(a, "Assistant", Head(entries).speaker,
                                       Head(entries).text),
                      Tail(entries))

\* push_assistant_reply that leaves active_speaker alone after a parse that
\* ends on the Narrator.
push_assistant_reply_keeps_speaker(a, reply) ==
    With(parse_speaker_lines(trim(reply)), LAMBDA parsed :
        IF Len(trim(reply)) = 0 \/ Len(parsed.entries) = 0 THEN a
        ELSE With(push_entries(a, parsed.entries), LAMBDA a1 :
                IF IsSome(parsed.last_speaker)
                   /\ ~is_narrator_label(Unwrap(parsed.last_speaker))
                THEN [a1 EXCEPT !.state.active_speaker = parsed.last_speaker]
                ELSE a1))

\* push_assistant_reply that makes the trailing speaker the active speaker even
\* when it is the Narrator.
push_assistant_reply_sets_narrator(a, reply0) ==
    With(trim(reply0), LAMBDA reply :
        IF Len(reply) = 0 THEN a
        ELSE With(parse_speaker_lines(reply), LAMBDA parsed :
            IF Len(parsed.entries) = 0
            THEN With(trim(strip_disallowed_speaker_lines(reply)), LAMBDA sanitized :
                    IF Len(sanitized) > 0
                    THEN [push_speaker_log(a, "Assistant", "Narrator", sanitized)
                          EXCEPT !.state.active_speaker = None]
                    ELSE a)
            ELSE With(push_entries(a, parsed.entries), LAMBDA a1 :
                    IF IsSome(parsed.last_speaker)
                    THEN [a1 EXCEPT !.state.active_speaker = parsed.last_speaker]
                    ELSE a1)))

push_assistant_reply(a, reply0) ==
    With(trim(reply0), LAMBDA reply :
        IF Len(reply) = 0 THEN a
        ELSE With(parse_speaker_lines(reply), LAMBDA parsed :
            IF Len(parsed.entries) = 0
            THEN With(trim(strip_disallowed_speaker_lines(reply)), LAMBDA sanitized :
                    IF Len(sanitized) > 0
                    THEN [push_speaker_log(a, "Assistant", "Narrator", sanitized)
                          EXCEPT !.state.active_speaker = None]
                    ELSE a)
            ELSE With(push_entries(a, parsed.entries), LAMBDA a1 :
                    IF IsSome(parsed.last_speaker)
                    THEN IF is_narrator_label(Unwrap(parsed.last_speaker))
                         THEN [a1 EXCEPT !.state.active_speaker = None]
                         ELSE [a1 EXCEPT !.state.active_speaker = parsed.last_speaker]
                    ELSE a1)))

(****************************** input.rs ***********************************)
U16_MAX == 65535

vec_position(v, x) ==
    IF \E i \in 1..Len(v) : v[i] = x
    THEN Some(CHOOSE i \in 1..Len(v) : v[i] = x /\ \A j \in 1..(i - 1) : v[j] # x)
    ELSE None

vec_remove(v, pos) == SubSeq(v, 1, pos - 1) \o SubSeq(v, pos + 1, Len(v))

Continue(a) == [app |-> a, quit |-> FALSE]
Quit(a) == [app |-> a, quit |-> TRUE]

\* handle_command whose /flag adds the flag without looking for it first.
handle_command_flag_unchecked(a, input) ==
    IF ~starts_with(input, "/") THEN Continue(a)
    ELSE IF input \in {"/quit", "/exit"} THEN Quit(a)
    ELSE IF input = "/new" THEN Continue(reset(a))
    ELSE IF input = "/help" THEN
        Continue(push_log(a, "System",
            "Commands: /new, /quit, /set location <name>, /add item <name>, /remove item <name>, /flag <name>, /unflag <name>."))
    ELSE IF starts_with(input, "/set location ") THEN
        LET loc == trim(trim_start_matches(input, "/set location "))
        IN  IF Len(loc) = 0
            THEN Continue(push_log(a, "System", "Usage: /set location <name>"))
            ELSE Continue(push_log([a EXCEPT !.state.location = loc],
                                   "System", "Location set to: " \o loc))
    ELSE IF starts_with(input, "/add item ") THEN
        LET item == trim(trim_start_matches(input, "/add item "))
        IN  IF Len(item) = 0
            THEN Continue(push_log(a, "System", "Usage: /add item <name>"))
            ELSE Continue(push_log([a EXCEPT !.state.inventory = Append(@, item)],
                                   "System", "Added item: " \o item))
    ELSE IF starts_with(input, "/remove item ") THEN
        LET item == trim(trim_start_matches(input, "/remove item "))
            pos  == vec_position(a.state.inventory, item)
        IN  IF Len(item) = 0
            THEN Continue(push_log(a, "System", "Usage: /remove item <name>"))
            ELSE IF IsSome(pos)
            THEN Continue(push_log(
                     [a EXCEPT !.state.inventory = vec_remove(@, Unwrap(pos))],
                     "System", "Removed item: " \o item))
            ELSE Continue(push_log(a, "System", "Item not found: " \o item))
    ELSE IF starts_with(input, "/flag ") THEN
        LET flag == trim(trim_start_matches(input, "/flag "))
        IN  IF Len(flag) = 0
            THEN Continue(push_log(a, "System", "Usage: /flag <name>"))
            ELSE Continue(push_log([a EXCEPT !.state.flags = Append(@, flag)],
                                   "System", "Flag set: " \o flag))
    ELSE IF starts_with(input, "/unflag ") THEN
        LET flag == trim(trim_start_matches(input, "/unflag "))
            pos  == vec_position(a.state.flags, flag)
        IN  IF Len(flag) = 0
            THEN Continue(push_log(a, "System", "Usage: /unflag <name>"))
            ELSE IF IsSome(pos)
            THEN Continue(push_log(
                     [a EXCEPT !.state.flags = vec_remove(@, Unwrap(pos))],
                     "System", "Flag cleared: " \o flag))
            ELSE Continue(push_log(a, "System", "Flag not found: " \o flag))
    ELSE Continue(push_log(a, "System", "Unknown command. Try /help."))

handle_command(a, input) ==
    IF ~starts_with(input, "/") THEN Continue(a)
    ELSE IF input \in {"/quit", "/exit"} THEN Quit(a)
    ELSE IF input = "/new" THEN Continue(reset(a))
    ELSE IF input = "/help" THEN
        Continue(push_log(a, "System",
            "Commands: /new, /quit, /set location <name>, /add item <name>, /remove item <name>, /flag <name>, /unflag <name>."))
    ELSE IF starts_with(input, "/set location ") THEN
        LET loc == trim(trim_start_matches(input, "/set location "))
        IN  IF Len(loc) = 0
            THEN Continue(push_log(a, "System", "Usage: /set location <name>"))
            ELSE Continue(push_log([a EXCEPT !.state.location = loc],
                                   "System", "Location set to: " \o loc))
    ELSE IF starts_with(input, "/add item ") THEN
        LET item == trim(trim_start_matches(input, "/add item "))
        IN  IF Len(item) = 0
            THEN Continue(push_log(a, "System", "Usage: /add item <name>"))
            ELSE Continue(push_log([a EXCEPT !.state.inventory = Append(@, item)],
                                   "System", "Added item: " \o item))
    ELSE IF starts_with(input, "/remove item ") THEN
        LET item == trim(trim_start_matches(input, "/remove item "))
            pos  == vec_position(a.state.inventory, item)
        IN  IF Len(item) = 0
            THEN Continue(push_log(a, "System", "Usage: /remove item <name>"))
            ELSE IF IsSome(pos)
            THEN Continue(push_log(
                     [a EXCEPT !.state.inventory = vec_remove(@, Unwrap(pos))],
                     "System", "Removed item: " \o item))
            ELSE Continue(push_log(a, "System", "Item not found: " \o item))
    ELSE IF starts_with(input, "/flag ") THEN
        LET flag == trim(trim_start_matches(input, "/flag "))
        IN  IF Len(flag) = 0
            THEN Continue(push_log(a, "System", "Usage: /flag <name>"))
            ELSE IF \E i \in 1..Len(a.state.flags) : a.state.flags[i] = flag
            THEN Continue(push_log(a, "System", "Flag already set: " \o flag))
            ELSE Continue(push_log([a EXCEPT !.state.flags = Append(@, flag)],
                                   "System", "Flag set: " \o flag))
    ELSE IF starts_with(input, "/unflag ") THEN
        LET flag == trim(trim_start_matches(input, "/unflag "))
            pos  == vec_position(a.state.flags, flag)
        IN  IF Len(flag) = 0
            THEN Continue(push_log(a, "System", "Usage: /unflag <name>"))
            ELSE IF IsSome(pos)
            THEN Continue(push_log(
                     [a EXCEPT !.state.flags = vec_remove(@, Unwrap(pos))],
                     "System", "Flag cleared: " \o flag))
            ELSE Continue(push_log(a, "System", "Flag not found: " \o flag))
    ELSE Continue(push_log(a, "System", "Unknown command. Try /help."))

\* The Enter branch that, after running a slash command, goes on to submit the
\* line like any other.
handle_enter_sends_commands(a) ==
    LET input == trim(a.input)
        a1    == [a EXCEPT !.input = ""]
        r     == IF starts_with(input, "/") THEN handle_command(a1, input) ELSE Continue(a1)
    IN  IF Len(input) = 0 THEN Continue(a1)
        ELSE IF r.quit THEN r
        ELSE LET a2 == push_log(r.app, "User", input)
                 a3 == push_user_message(a2, input)
             IN  Continue([a3 EXCEPT !.last_sent_input = Some(input),
                                     !.pending_input = Some(input)])

\* The Enter branch of handle_key_event.
handle_enter(a) ==
    LET input == trim(a.input)
        a1    == [a EXCEPT !.input = ""]
    IN  IF Len(input) = 0 THEN Continue(a1)
        ELSE IF starts_with(input, "/") THEN handle_command(a1, input)
        ELSE LET a2 == push_log(a1, "User", input)
                 a3 == push_user_message(a2, input)
             IN  Continue([a3 EXCEPT !.last_sent_input = Some(input),
                                     !.pending_input = Some(input)])

\* A key event is [code, ch, ctrl]; ch is meaningful for code "Char" only.
handle_key_event(a, key) ==
    IF key.ctrl /\ key.code = "Char" /\ key.ch = "c" THEN Quit(a)
    ELSE IF key.ctrl /\ key.code = "Char" /\ key.ch = "n" THEN Continue(reset(a))
    ELSE IF key.ctrl /\ key.code = "Char" /\ key.ch = "r" THEN
        Continue(IF IsSome(a.last_sent_input)
                 THEN [a EXCEPT !.input = Unwrap(a.last_sent_input)]
                 ELSE a)
    ELSE IF key.code = "Char" THEN Continue([a EXCEPT !.input = @ \o key.ch])
    ELSE IF key.code = "Backspace" THEN
        Continue([a EXCEPT !.input = SubSeq(@, 1, Max(Len(@) - 1, 0))])
    ELSE IF key.code = "Enter" THEN handle_enter(a)
    ELSE IF key.code = "Up" THEN Continue([a EXCEPT !.scroll = Max(@ - 1, 0)])
    ELSE IF key.code = "Down" THEN Continue([a EXCEPT !.scroll = Min(@ + 1, U16_MAX)])
    ELSE Continue(a)

(******************************** ui.rs ************************************)
\* draw_ui changes the App only by clamping scroll to the rendered line count.
draw_ui(a, max_scroll) == [a EXCEPT !.scroll = Min(@, max_scroll)]

(******************************* api.rs ************************************)
MODEL == "gpt-5-mini"

SYSTEM_PROMPT ==
       "You are a text adventure game narrator.\n"
    \o "Write in second person, present tense.\n"
    \o "Always prefix each line with a speaker label, e.g. \"Narrator:\" or \"Clerk:\".\n"
    \o "Only the narrator or in-world characters may speak. Never output lines for the player (no \"You:\", \"Player:\", or \"User:\").\n"
    \o "Use one speaker label per block; do not repeat the same label for consecutive lines.\n"
    \o "Use the \"Current speaker\" field below: if it is not \"Narrator\", the player is addressing that character.\n"
    \o "If the player directly addresses a named character, respond as that character until the dialogue ends.\n"
    \o "If the player leaves, moves away, or ends the interaction, switch back to \"Narrator:\" and do not continue the character's dialogue.\n"
    \o "If the player addresses \"him/her/them\" or speaks to someone in the scene, pick the most likely character and respond as them.\n"
    \o "During dialogue, the Narrator should stay silent unless ending the dialogue; use \"Narrator:\" to resume narration.\n"
    \o "Narrator describes actions and scene changes; characters only speak dialogue. If both are needed, use two lines: Narrator first, then the character.\n"
    \o "When a character speaks, use quotation marks around their words.\n"
    \o "Keep character names consistent when labeling lines.\n"
    \o "Keep responses concise: 1-2 short paragraphs, then ask what the player does next.\n"
    \o "Do not use markdown code fences or JSON in your response.\n"
    \o "Avoid meta commentary about being an AI.\n"

RECURSIVE flatten(_)
flatten(seqs) == IF Len(seqs) = 0 THEN <<>> ELSE Head(seqs) \o flatten(Tail(seqs))

build_request_body(input) ==
    [ model             |-> MODEL,
      input             |-> input,
      max_output_tokens |-> 500,
      text              |-> [format |-> [type |-> "text"]],
      reasoning         |-> [effort |-> "low"],
      include           |-> <<"reasoning.encrypted_content">> ]

system_with_state(state) ==
    SYSTEM_PROMPT
    \o "\nCurrent turn: " \o ToString(state.turn)
    \o "\nLocation: " \o state.location
    \o "\nInventory: "
    \o (IF Len(state.inventory) = 0 THEN "Empty" ELSE join(state.inventory, ", "))
    \o "\nFlags: "
    \o (IF Len(state.flags) = 0 THEN "None" ELSE join(state.flags, ", "))
    \o "\nCurrent speaker: "
    \o (IF IsSome(state.active_speaker) THEN Unwrap(state.active_speaker) ELSE "Narrator")

\* input_items with the system item put behind the history items.
input_items_system_last(history, state) ==
    flatten(history) \o <<[role |-> "system", content |-> system_with_state(state)]>>

input_items(history, state) ==
    <<[role |-> "system", content |-> system_with_state(state)]>> \o flatten(history)

corrective_item == [role |-> "user", content |-> "Please respond with visible text only."]

retry_items(history, state) == Append(input_items(history, state), corrective_item)

\* The body advance_turn posts on the given attempt.
attempt_body(history, state, attempt) ==
    IF attempt = 0
    THEN build_request_body(input_items(history, state))
    ELSE build_request_body(retry_items(history, state))

\* A response value is [output, output_text]; an output item is [type, role,
\* content]; a content part is [type, text, refusal].  Each field is an Option:
\* None stands for a field that is missing or not of the type the code reads.
part_types(item) ==
    IF IsSome(item.content)
    THEN LET typed == SelectSeq(Unwrap(item.content), LAMBDA part : IsSome(part.type))
         IN  [i \in 1..Len(typed) |-> Unwrap(typed[i].type)]
    ELSE <<>>

\* item_refusals that overlooks every refusal part.
item_refusals_none(item) == <<>>

item_refusals(item) ==
    IF IsSome(item.content)
    THEN LET hit == SelectSeq(Unwrap(item.content),
                        LAMBDA part : part.type = Some("refusal") /\ IsSome(part.refusal))
         IN  [i \in 1..Len(hit) |-> Unwrap(hit[i].refusal)]
    ELSE <<>>

\* item_texts that takes output_text parts from a message of any role.
item_texts_any_role(item) ==
    IF item.type = Some("message") /\ IsSome(item.content)
    THEN LET hit == SelectSeq(Unwrap(item.content),
                        LAMBDA part : part.type = Some("output_text") /\ IsSome(part.text))
         IN  [i \in 1..Len(hit) |-> Unwrap(hit[i].text)]
    ELSE <<>>

item_texts(item) ==
    IF item.type = Some("message") /\ item.role = Some("assistant") /\ IsSome(item.content)
    THEN LET hit == SelectSeq(Unwrap(item.content),
                        LAMBDA part : part.type = Some("output_text") /\ IsSome(part.text))
         IN  [i \in 1..Len(hit) |-> Unwrap(hit[i].text)]
    ELSE <<>>

item_debug_line(item) ==
    LET item_type     == IF IsSome(item.type) THEN Unwrap(item.type) ELSE "unknown"
        item_role     == IF IsSome(item.role) THEN Unwrap(item.role) ELSE "-"
        content_types == part_types(item)
    IN  IF Len(content_types) = 0
        THEN "output: type=" \o item_type \o " role=" \o item_role \o " content=[]"
        ELSE "output: type=" \o item_type \o " role=" \o item_role
             \o " content=" \o join(content_types, ",")

extract_output_text_and_items(value) ==
    IF ~IsSome(value.output)
    THEN [text |-> value.output_text, items |-> <<>>, debug |-> "output: <missing>"]
    ELSE
        LET output        == Unwrap(value.output)
            fallback_text == value.output_text
            texts         == flatten([i \in 1..Len(output) |-> item_texts(output[i])])
            refusals      == flatten([i \in 1..Len(output) |-> item_refusals(output[i])])
            debug_lines   ==
                (IF IsSome(fallback_text)
                 THEN <<"output_text:len=" \o ToString(Len(Unwrap(fallback_text)))>>
                 ELSE <<>>)
                \o [i \in 1..Len(output) |-> item_debug_line(output[i])]
            summary       == join(debug_lines, " | ")
        IN  IF Len(texts) = 0
            THEN IF Len(refusals) # 0
                 THEN [text |-> Some("Refusal: " \o join(refusals, "\n")),
                       items |-> output, debug |-> summary]
                 ELSE IF IsSome(fallback_text)
                 THEN [text |-> fallback_text, items |-> output, debug |-> summary]
                 ELSE [text |-> None, items |-> output, debug |-> summary]
            ELSE [text |-> Some(join(texts, "")), items |-> output, debug |-> summary]

\* Ok that hands back the text without the output items.
Ok_drops_items(text, items, summary) ==
    [ok |-> TRUE, text |-> text, items |-> <<>>, debug |-> summary, error |-> ""]

Ok(text, items, summary) ==
    [ok |-> TRUE, text |-> text, items |-> items, debug |-> summary, error |-> ""]
Err(message) ==
    [ok |-> FALSE, text |-> "", items |-> <<>>, debug |-> "", error |-> message]

\* One more than the attempts of the loop `for attempt in 0..2`.
ATTEMPTS_one_more == 2 + 1

ATTEMPTS == 2

Return(result, last_debug) == [retry |-> FALSE, result |-> Some(result), last_debug |-> last_debug]
Retry(last_debug) == [retry |-> TRUE, result |-> None, last_debug |-> last_debug]

\* One pass of the attempt loop that retries after a non-success status
\* instead of returning the transport error.
attempt_outcome_retry_on_status(attempt, resp, dbg, last_debug) ==
    IF resp.kind = "build_error" \/ resp.kind = "send_error" \/ resp.kind = "json_error"
    THEN Return(Err(resp.message), last_debug)
    ELSE IF resp.kind = "http_error"
    THEN IF attempt + 1 < ATTEMPTS
         THEN Retry(last_debug)
         ELSE Return(Err("OpenAI API error (" \o resp.status \o "): " \o resp.text), last_debug)
    ELSE LET ex == extract_output_text_and_items(resp.value)
         IN  IF IsSome(ex.text)
             THEN Return(Ok(Unwrap(ex.text), ex.items, ex.debug), ex.debug)
             ELSE IF attempt + 1 < ATTEMPTS
             THEN Retry(ex.debug)
             ELSE Return(Err(IF dbg
                             THEN "No output text found in response. Output summary: "
                                  \o ex.debug
                             ELSE "No output text found in response."), ex.debug)

\* One pass of the attempt loop that, with debug on, reports an answer
\* without text at once instead of going on to the next attempt.
attempt_outcome_debug_stops(attempt, resp, dbg, last_debug) ==
    IF resp.kind = "build_error" \/ resp.kind = "send_error" \/ resp.kind = "json_error"
    THEN Return(Err(resp.message), last_debug)
    ELSE IF resp.kind = "http_error"
    THEN Return(Err("OpenAI API error (" \o resp.status \o "): " \o resp.text), last_debug)
    ELSE LET ex == extract_output_text_and_items(resp.value)
         IN  IF IsSome(ex.text)
             THEN Return(Ok(Unwrap(ex.text), ex.items, ex.debug), ex.debug)
             ELSE IF attempt + 1 < ATTEMPTS /\ ~dbg
             THEN Retry(ex.debug)
             ELSE Return(Err(IF dbg
                             THEN "No output text found in response. Output summary: "
                                  \o ex.debug
                             ELSE "No output text found in response."), ex.debug)

\* One pass of the attempt loop of advance_turn on the service's answer `resp`:
\* either advance_turn returns, or the loop goes on to the next attempt.
attempt_outcome(attempt, resp, dbg, last_debug) ==
    IF resp.kind = "build_error" \/ resp.kind = "send_error" \/ resp.kind = "json_error"
    THEN Return(Err(resp.message), last_debug)
    ELSE IF resp.kind = "http_error"
    THEN Return(Err("OpenAI API error (" \o resp.status \o "): " \o resp.text), last_debug)
    ELSE LET ex == extract_output_text_and_items(resp.value)
         IN  IF IsSome(ex.text)
             THEN Return(Ok(Unwrap(ex.text), ex.items, ex.debug), ex.debug)
             ELSE IF attempt + 1 < ATTEMPTS
             THEN Retry(ex.debug)
             ELSE Return(Err(IF dbg
                             THEN "No output text found in response. Output summary: "
                                  \o ex.debug
                             ELSE "No output text found in response."), ex.debug)

(******************************* main.rs ***********************************)
\* u32::saturating_add(1).  The saturation point 2^32 - 1 lies beyond the
\* integers TLC represents and beyond any turn count the environment reaches.
saturating_add_one(turn) == turn + 1

\* What rx.try_recv() yields in the busy branch of run_app.
RecvOk(result) == [kind |-> "Ok", result |-> result]
RecvEmpty == [kind |-> "Empty", result |-> Err("")]
RecvDisconnected == [kind |-> "Disconnected", result |-> Err("")]

\* on_try_recv that drops the handle of a failed turn and leaves busy set.
on_try_recv_error_stays_busy(a, recv, dbg) ==
    IF recv.kind = "Ok" THEN
        IF recv.result.ok
        THEN LET a1 == [a EXCEPT !.pending_response = None, !.busy = FALSE]
                 a2 == push_log(a1, "Assistant", trim(recv.result.text))
                 a3 == push_history_chunk(a2, recv.result.items)
                 a4 == IF dbg THEN push_log(a3, "System", recv.result.debug) ELSE a3
             IN  [a4 EXCEPT !.state.turn = saturating_add_one(@), !.status = "Ready"]
        ELSE [push_log([a EXCEPT !.pending_response = None], "Error", recv.result.error)
              EXCEPT !.status = "Error"]
    ELSE IF recv.kind = "Disconnected" THEN
        [push_log([a EXCEPT !.pending_response = None],
                  "Error", "Response channel disconnected.")
         EXCEPT !.status = "Error"]
    ELSE a

\* on_try_recv that counts a failed turn as a turn.
on_try_recv_counts_failures(a, recv, dbg) ==
    IF recv.kind = "Ok" THEN
        LET a1 == [a EXCEPT !.pending_response = None, !.busy = FALSE,
                            !.state.turn = saturating_add_one(@)]
        IN  IF recv.result.ok
            THEN LET a2 == push_log(a1, "Assistant", trim(recv.result.text))
                     a3 == push_history_chunk(a2, recv.result.items)
                     a4 == IF dbg THEN push_log(a3, "System", recv.result.debug) ELSE a3
                 IN  [a4 EXCEPT !.status = "Ready"]
            ELSE [push_log(a1, "Error", recv.result.error) EXCEPT !.status = "Error"]
    ELSE IF recv.kind = "Disconnected" THEN
        [push_log([a EXCEPT !.pending_response = None, !.busy = FALSE],
                  "Error", "Response channel disconnected.")
         EXCEPT !.status = "Error"]
    ELSE a

\* on_try_recv that writes no log entry for a reply that is blank.
on_try_recv_skips_blank_reply(a, recv, dbg) ==
    IF recv.kind = "Ok" THEN
        LET a1 == [a EXCEPT !.pending_response = None, !.busy = FALSE]
        IN  IF recv.result.ok
            THEN LET a2 == IF Len(trim(recv.result.text)) = 0 THEN a1
                           ELSE push_log(a1, "Assistant", trim(recv.result.text))
                     a3 == push_history_chunk(a2, recv.result.items)
                     a4 == IF dbg THEN push_log(a3, "System", recv.result.debug) ELSE a3
                 IN  [a4 EXCEPT !.state.turn = saturating_add_one(@), !.status = "Ready"]
            ELSE [push_log(a1, "Error", recv.result.error) EXCEPT !.status = "Error"]
    ELSE IF recv.kind = "Disconnected" THEN
        [push_log([a EXCEPT !.pending_response = None, !.busy = FALSE],
                  "Error", "Response channel disconnected.")
         EXCEPT !.status = "Error"]
    ELSE a

\* on_try_recv that takes the last chunk off the history when the turn failed.
on_try_recv_rolls_back(a, recv, dbg) ==
    IF recv.kind = "Ok" THEN
        LET a1 == [a EXCEPT !.pending_response = None, !.busy = FALSE]
        IN  IF recv.result.ok
            THEN LET a2 == push_log(a1, "Assistant", trim(recv.result.text))
                     a3 == push_history_chunk(a2, recv.result.items)
                     a4 == IF dbg THEN push_log(a3, "System", recv.result.debug) ELSE a3
                 IN  [a4 EXCEPT !.state.turn = saturating_add_one(@), !.status = "Ready"]
            ELSE [push_log(a1, "Error", recv.result.error)
                  EXCEPT !.status = "Error",
                         !.history = SubSeq(@, 1, Len(@) - 1)]
    ELSE IF recv.kind = "Disconnected" THEN
        [push_log([a EXCEPT !.pending_response = None, !.busy = FALSE],
                  "Error", "Response channel disconnected.")
         EXCEPT !.status = "Error",
                !.history = SubSeq(@, 1, Len(@) - 1)]
    ELSE a

\* The busy branch of run_app once a handle is present: the App after
\* try_recv() yielded `recv`.
on_try_recv(a, recv, dbg) ==
    IF recv.kind = "Ok" THEN
        LET a1 == [a EXCEPT !.pending_response = None, !.busy = FALSE]
        IN  IF recv.result.ok
            THEN LET a2 == push_log(a1, "Assistant", trim(recv.result.text))
                     a3 == push_history_chunk(a2, recv.result.items)
                     a4 == IF dbg THEN push_log(a3, "System", recv.result.debug) ELSE a3
                 IN  [a4 EXCEPT !.state.turn = saturating_add_one(@), !.status = "Ready"]
            ELSE [push_log(a1, "Error", recv.result.error) EXCEPT !.status = "Error"]
    ELSE IF recv.kind = "Disconnected" THEN
        [push_log([a EXCEPT !.pending_response = None, !.busy = FALSE],
                  "Error", "Response channel disconnected.")
         EXCEPT !.status = "Error"]
    ELSE a

\* The loop starts a turn whatever the busy flag says.
loop_skips_start_never(a) == FALSE

\* `if app.busy { ...; continue; }`: a busy loop iteration never reaches the
\* code that starts a turn.
loop_skips_start(a) == a.busy

\* The App after run_app took the pending input and installed the handle of
\* worker `id`.
on_start_turn(a, id) ==
    [a EXCEPT !.pending_input = None,
              !.pending_response = Some(id),
              !.busy = TRUE,
              !.status = "Thinking..."]

(************************ turn worker threads ******************************)
\* The thread spawned by run_app: it owns clones of history and state and the
\* sending half of its channel.
\*   attempt, returned, panicked   position inside advance_turn
\*   last_debug                    advance_turn's local of that name
\*   chan                          the result sent and not yet received
\*   tx_alive, rx_alive            the two halves of the channel
\*   requests, responses           bodies posted and answers got, in order
\*   result                        what advance_turn returned
\*   start_input                   what the live App rendered to at spawn time
\*   stale                         a reset happened after the spawn
new_worker(a) ==
    [ history     |-> a.history,
      state       |-> a.state,
      attempt     |-> 0,
      returned    |-> FALSE,
      panicked    |-> FALSE,
      last_debug  |-> "",
      chan        |-> None,
      tx_alive    |-> TRUE,
      rx_alive    |-> TRUE,
      requests    |-> <<>>,
      responses   |-> <<>>,
      result      |-> None,
      start_input |-> input_items(a.history, a.state),
      stale       |-> FALSE ]

\* The worker reads the live App instead of the clones it was spawned with.
worker_body_live(w, attempt) == attempt_body(app.history, app.state, attempt)

\* The body worker w posts on `attempt`: built from the clones moved into it.
worker_body(w, attempt) == attempt_body(workers[w].history, workers[w].state, attempt)

is_running(worker) == ~worker.returned /\ ~worker.panicked

Running(w) == is_running(workers[w])

\* try_recv that reports Empty for a channel whose sender is gone.
try_recv_ignores_disconnect(w) ==
    IF IsSome(workers[w].chan) THEN RecvOk(Unwrap(workers[w].chan))
    ELSE RecvEmpty

try_recv(w) ==
    IF IsSome(workers[w].chan) THEN RecvOk(Unwrap(workers[w].chan))
    ELSE IF ~workers[w].tx_alive THEN RecvDisconnected
    ELSE RecvEmpty

\* Dropping the receiver: the handle the App held before a step and holds no more.
drop_receiver(ws, before, after) ==
    IF IsSome(before) /\ after # before
    THEN [ws EXCEPT ![Unwrap(before)].rx_alive = FALSE, ![Unwrap(before)].chan = None]
    ELSE ws

mark_stale(ws) == [w \in 1..Len(ws) |-> [ws[w] EXCEPT !.stale = TRUE]]

\* What is left of a worker once its thread has ended and its channel is gone.
ended_worker ==
    [ history     |-> <<>>,
      state       |-> GameState_new,
      attempt     |-> 0,
      returned    |-> TRUE,
      panicked    |-> FALSE,
      last_debug  |-> "",
      chan        |-> None,
      tx_alive    |-> FALSE,
      rx_alive    |-> FALSE,
      requests    |-> <<>>,
      responses   |-> <<>>,
      result      |-> None,
      start_input |-> <<>>,
      stale       |-> TRUE ]

\* The threads that ended and whose receiver is dropped hold nothing any more.
release_ended(ws) ==
    [w \in 1..Len(ws) |->
        IF ~is_running(ws[w]) /\ ~ws[w].rx_alive THEN ended_worker ELSE ws[w]]

(****************************** environment ********************************)
MaxWorkers == 2
MaxLog == 3
\* The most log lines that do not fit the transcript panel.
MaxOverflow == 0

\* The lines the player types into an empty input box.
ScriptLines == {"a", "/flag a"}

Key(code, ch, ctrl) == [code |-> code, ch |-> ch, ctrl |-> ctrl]

\* The character keys that type `line`.
CharKeys(line) == [i \in 1..Len(line) |-> Key("Char", CharAt(line, i), FALSE)]

Submits(a) == LET input == trim(a.input) IN Len(input) > 0 /\ ~starts_with(input, "/")

RECURSIVE handle_keys(_, _)
handle_keys(a, keys) ==
    IF Len(keys) = 0 THEN Continue(a)
    ELSE With(handle_key_event(a, Head(keys)), LAMBDA r :
            IF r.quit THEN r ELSE handle_keys(r.app, Tail(keys)))

\* Enter is pressed while the log and the number of workers leave room for it.
EnterAllowed(a) ==
    /\ Len(a.log) < MaxLog
    /\ Submits(a) =>
         Len(workers) + (IF IsSome(a.pending_input) THEN 0 ELSE 1) <= MaxWorkers

\* The keys the player presses next: a whole line and Enter on an empty input
\* box, or one other key.  The keys of a line are read in consecutive loop
\* iterations; the character keys change app.input alone, which the turn phase
\* of the loop never reads or writes, so those iterations are taken together
\* with the one that reads Enter.  The player does not scroll down here.
EnvKeys(a) ==
    (IF a.input = ""
     THEN {Append(CharKeys(line), Key("Enter", "", FALSE)) :
             line \in {l \in ScriptLines : EnterAllowed(handle_keys(a, CharKeys(l)).app)}}
     ELSE {})
    \cup {<<Key("Char", ch, TRUE)>> : ch \in {"c", "n", "r"}}
    \cup {<<Key("Up", "", FALSE)>>, <<Key("Other", "", FALSE)>>}
    \cup (IF Len(a.input) <= 1 THEN {<<Key("Backspace", "", FALSE)>>} ELSE {})
    \cup (IF EnterAllowed(a) THEN {<<Key("Enter", "", FALSE)>>} ELSE {})

\* The keys end in a reset: Ctrl-N, or Enter on the line /new.
key_resets(a, keys) ==
    LET last   == keys[Len(keys)]
        before == handle_keys(a, SubSeq(keys, 1, Len(keys) - 1)).app
    IN  \/ last.ctrl /\ last.code = "Char" /\ last.ch = "n"
        \/ ~last.ctrl /\ last.code = "Enter" /\ trim(before.input) = "/new"

ValueText ==
    [ output |-> Some(<<[ type |-> Some("message"), role |-> Some("assistant"),
                          content |-> Some(<<[ type |-> Some("output_text"),
                                               text |-> Some("Narrator: Hi."),
                                               refusal |-> None ]>>) ]>>),
      output_text |-> None ]
ValueEmpty == [output |-> Some(<<>>), output_text |-> None]
ValueFallbackOnly == [output |-> None, output_text |-> Some("Narrator: Ok.")]

\* A reasoning item alone: something to keep, nothing to show.
ValueReasoningOnly ==
    [ output |-> Some(<<[ type |-> Some("reasoning"), role |-> None, content |-> None ]>>),
      output_text |-> None ]
ValueRefusal ==
    [ output |-> Some(<<[ type |-> Some("message"), role |-> Some("assistant"),
                          content |-> Some(<<[ type |-> Some("refusal"),
                                               text |-> None,
                                               refusal |-> Some("No.") ]>>) ]>>),
      output_text |-> None ]

HttpError == [kind |-> "http_error", status |-> "500 Internal Server Error", text |-> "down"]
SendError == [kind |-> "send_error", message |-> "error sending request"]
JsonError == [kind |-> "json_error", message |-> "error decoding response body"]
BuildError == [kind |-> "build_error", message |-> "builder error"]

\* The answers the service gives the workers of the control loop.
Responses(attempt) ==
    { [kind |-> "ok", value |-> ValueText], [kind |-> "ok", value |-> ValueEmpty] }

(******************************* run_app ***********************************)
Init ==
    /\ app = App_new
    /\ debug \in BOOLEAN
    /\ loop_pc = "event"
    /\ workers = <<>>
    /\ appended = <<>>
    /\ lastCall = [op |-> "new", n |-> 0]

\* terminal.draw, then event::poll timing out.
LoopNoEvent ==
    /\ loop_pc = "event"
    /\ \E max_scroll \in 0..MaxOverflow : app' = draw_ui(app, max_scroll)
    /\ loop_pc' = "turn"
    /\ workers' = release_ended(workers)
    /\ UNCHANGED <<debug, appended, lastCall>>

\* terminal.draw, then event::poll and handle_key_event on the key read.
LoopKeyEvent ==
    /\ loop_pc = "event"
    /\ \E max_scroll \in 0..MaxOverflow :
         LET drawn == draw_ui(app, max_scroll)
         IN  \E keys \in EnvKeys(drawn) :
               LET r  == handle_keys(drawn, keys)
                   ws == drop_receiver(workers, drawn.pending_response,
                                       r.app.pending_response)
               IN  /\ app' = r.app
                   /\ loop_pc' = IF r.quit THEN "done" ELSE "turn"
                   /\ workers' = release_ended(IF key_resets(drawn, keys)
                                                THEN mark_stale(ws) ELSE ws)
    /\ UNCHANGED <<debug, appended, lastCall>>

\* The busy branch: poll the pending handle without blocking, then `continue`.
LoopPollResponse ==
    /\ loop_pc = "turn"
    /\ loop_skips_start(app)
    /\ IF app.busy /\ IsSome(app.pending_response)
       THEN LET w == Unwrap(app.pending_response)
                a == on_try_recv(app, try_recv(w), debug)
            IN  /\ app' = a
                /\ workers' = release_ended(drop_receiver(workers, app.pending_response,
                                                          a.pending_response))
       ELSE /\ app' = app
            /\ workers' = release_ended(workers)
    /\ loop_pc' = "event"
    /\ UNCHANGED <<debug, appended, lastCall>>

\* Not busy and an input is pending: clone, install the handle, draw, spawn.
LoopStartTurn ==
    /\ loop_pc = "turn"
    /\ ~loop_skips_start(app)
    /\ IsSome(app.pending_input)
    /\ LET id == Len(workers) + 1
           a  == on_start_turn(app, id)
       IN  /\ \E max_scroll \in 0..MaxOverflow : app' = draw_ui(a, max_scroll)
           /\ workers' = Append(release_ended(drop_receiver(workers, app.pending_response,
                                                            a.pending_response)),
                                new_worker(app))
    /\ loop_pc' = "event"
    /\ UNCHANGED <<debug, appended, lastCall>>

\* Not busy and nothing pending: the iteration ends.
LoopIdle ==
    /\ loop_pc = "turn"
    /\ ~loop_skips_start(app)
    /\ ~IsSome(app.pending_input)
    /\ loop_pc' = "event"
    /\ workers' = release_ended(workers)
    /\ UNCHANGED <<app, debug, appended, lastCall>>

\* advance_turn in worker w posts one request and gets the answer `resp`; when
\* it returns, the thread sends the result and ends.
worker_step(w, resp) ==
    LET me   == workers[w]
        out  == attempt_outcome(me.attempt, resp, debug, me.last_debug)
        sent == IF resp.kind = "build_error"
                THEN me.requests
                ELSE Append(me.requests, worker_body(w, me.attempt))
    IN  [workers EXCEPT ![w] =
           IF out.retry
           THEN [me EXCEPT !.attempt = @ + 1,
                           !.last_debug = out.last_debug,
                           !.requests = sent,
                           !.responses = Append(@, resp)]
           ELSE [me EXCEPT !.returned = TRUE,
                           !.last_debug = out.last_debug,
                           !.requests = sent,
                           !.responses = Append(@, resp),
                           !.result = out.result,
                           !.chan = IF me.rx_alive THEN out.result ELSE None,
                           !.tx_alive = FALSE]]

WorkerAttempt(w) ==
    /\ loop_pc # "done"
    /\ Running(w)
    /\ \E resp \in Responses(workers[w].attempt) : workers' = worker_step(w, resp)
    /\ UNCHANGED <<app, debug, loop_pc, appended, lastCall>>

\* The worker thread dies without sending (a panic inside the closure).
WorkerPanic(w) ==
    /\ loop_pc # "done"
    /\ Running(w)
    /\ workers' = [workers EXCEPT ![w].panicked = TRUE, ![w].tx_alive = FALSE]
    /\ UNCHANGED <<app, debug, loop_pc, appended, lastCall>>

Next ==
    \/ LoopNoEvent
    \/ LoopKeyEvent
    \/ LoopPollResponse
    \/ LoopStartTurn
    \/ LoopIdle
    \/ \E w \in 1..Len(workers) : WorkerAttempt(w)
    \/ \E w \in 1..Len(workers) : WorkerPanic(w)

Spec == Init /\ [][Next]_vars

(********************** the history, called directly ***********************)
\* App::push_history_chunk, App::push_user_message and App::reset called in any
\* order on a fresh App.  `appended` keeps every non-empty chunk handed over
\* since the last reset and `lastCall` the call just made.
MaxAppends == 4

ChunkSizes == {0, 1, MAX_HISTORY_ITEMS \div 2, MAX_HISTORY_ITEMS + 1}
ChunkTags == {"x", "y"}
UserTexts == {"look", "leave now"}

Chunk(n, tag) == [i \in 1..n |-> [role |-> "assistant", content |-> tag]]

HInit ==
    /\ app = App_new
    /\ debug = FALSE
    /\ loop_pc = "event"
    /\ workers = <<>>
    /\ appended = <<>>
    /\ lastCall = [op |-> "new", n |-> 0]

HPushHistoryChunk ==
    /\ Len(appended) < MaxAppends
    /\ \E n \in ChunkSizes, tag \in ChunkTags :
         LET items == Chunk(n, tag)
         IN  /\ app' = push_history_chunk(app, items)
             /\ appended' = IF n = 0 THEN appended ELSE Append(appended, items)
             /\ lastCall' = [op |-> "push_history_chunk", n |-> n]
    /\ UNCHANGED <<debug, loop_pc, workers>>

HPushUserMessage ==
    /\ Len(appended) < MaxAppends
    /\ \E content \in UserTexts :
         /\ app' = push_user_message(app, content)
         /\ appended' = Append(appended, <<user_item(content)>>)
         /\ lastCall' = [op |-> "push_user_message", n |-> 1]
    /\ UNCHANGED <<debug, loop_pc, workers>>

HReset ==
    /\ app' = reset(app)
    /\ appended' = <<>>
    /\ lastCall' = [op |-> "reset", n |-> 0]
    /\ UNCHANGED <<debug, loop_pc, workers>>

HNext ==
    \/ HPushHistoryChunk
    \/ HPushUserMessage
    \/ HReset

SpecHistory == HInit /\ [][HNext]_vars

(************************* claims on the history ***************************)
\* C1: whatever push_history_chunk and push_user_message calls were made, with
\* chunks of any size, the history never holds more than MAX_HISTORY_ITEMS
\* items in total.
C1_HistoryWithinCap == history_item_count(app.history) <= MAX_HISTORY_ITEMS

\* A chunk larger than the cap was appended and the history sits exactly at
\* the cap.
C1_Witness ==
    /\ history_item_count(app.history) = MAX_HISTORY_ITEMS
    /\ \E i \in 1..Len(appended) : Len(appended[i]) > MAX_HISTORY_ITEMS

IsSuffix(h, all) ==
    /\ Len(h) <= Len(all)
    /\ h = SubSeq(all, Len(all) - Len(h) + 1, Len(all))

\* C2: the history is a contiguous suffix of the non-empty chunks appended
\* since the last reset: the oldest chunks are evicted first and a chunk is
\* kept or dropped as a whole.
C2_HistoryIsSuffix == IsSuffix(app.history, appended)

\* Chunks were evicted and at least two later chunks survive.
C2_Witness ==
    /\ Len(app.history) >= 2
    /\ Len(appended) > Len(app.history)

\* C3: push_history_chunk called with an empty item list changes nothing.
C3_EmptyChunkNoOp ==
    [][(lastCall'.op = "push_history_chunk" /\ lastCall'.n = 0) => app' = app]_vars

\* An empty chunk was just handed to an App whose history holds chunks.
C3_Witness ==
    /\ lastCall.op = "push_history_chunk"
    /\ lastCall.n = 0
    /\ Len(app.history) > 0

(*********************** claims on the control loop ************************)
RunningWorkers == {w \in 1..Len(workers) : Running(w)}

\* The workers whose receiving half the App still holds.
HeldWorkers == {w \in 1..Len(workers) : workers[w].rx_alive}

\* C4 as stated: at most one turn worker is started and not yet finished at any
\* time, over every interleaving of submissions, completions and resets.
C4_AtMostOneOutstanding == Cardinality(RunningWorkers) <= 1

\* C4 amended: the App holds the result handle of at most one worker, the one
\* pending_response names, and the loop starts a worker only when busy is
\* clear and no handle is held.
C4_AtMostOneHeld ==
    /\ [](/\ Cardinality(HeldWorkers) <= 1
          /\ HeldWorkers = IF IsSome(app.pending_response)
                           THEN {Unwrap(app.pending_response)} ELSE {})
    /\ [][Len(workers') > Len(workers) =>
            (~app.busy /\ ~IsSome(app.pending_response))]_vars

\* Two worker threads run at once while the App waits for one of them.
C4_Witness ==
    /\ Cardinality(RunningWorkers) = 2
    /\ app.busy
    /\ Cardinality(HeldWorkers) = 1

\* C5 as stated: while busy is set, a key press appends no user chunk to the
\* history and sets no pending_input.
C5_NoSubmitWhileBusy ==
    [][(loop_pc = "event" /\ app.busy) =>
         /\ Len(app'.history) <= Len(app.history)
         /\ IsSome(app'.pending_input) => app'.pending_input = app.pending_input]_vars

\* C6 as stated: when the loop appends a turn's response chunk, nothing was
\* appended to the history since that turn's worker was started, so the chunk
\* lands right behind the turn's own user chunk.
C6_ResponseFollowsOwnUserChunk ==
    [][(loop_pc = "turn" /\ app.busy /\ IsSome(app.pending_response)
          /\ app'.history # app.history) =>
         app.history = workers[Unwrap(app.pending_response)].history]_vars

\* C7: once the session is reset, the App holds no handle of a worker started
\* before the reset and that worker's channel carries nothing, so the loop can
\* never receive its result; and the step in which such a worker completes
\* leaves the App as it is.
C7_StaleResultDiscarded ==
    /\ [](/\ IsSome(app.pending_response) =>
               ~workers[Unwrap(app.pending_response)].stale
          /\ \A w \in 1..Len(workers) :
               workers[w].stale => (~workers[w].rx_alive /\ workers[w].chan = None))
    /\ [][(\E w \in 1..Len(workers) :
             /\ workers[w].stale
             /\ is_running(workers[w])
             /\ ~is_running(workers'[w])) => app' = app]_vars

\* A worker started before a reset has returned a successful result.
C7_Witness ==
    \E w \in 1..Len(workers) :
        /\ workers[w].stale
        /\ workers[w].returned
        /\ IsSome(workers[w].result)
        /\ Unwrap(workers[w].result).ok

\* The body a worker posts on its i-th request, from what the live App held
\* when the worker was started.
body_at_start(w, i) ==
    build_request_body(IF i = 1 THEN workers[w].start_input
                       ELSE Append(workers[w].start_input, corrective_item))

\* C8: every request a worker has sent is built from the history and GameState
\* the App held when the worker was started, whatever became of the live ones
\* since; and a step of a worker (the loop stays where it is) leaves the App
\* unchanged.
C8_WorkerUsesSnapshot ==
    /\ [](\A w \in 1..Len(workers) :
            \A i \in 1..Len(workers[w].requests) :
                workers[w].requests[i] = body_at_start(w, i))
    /\ [][loop_pc' = loop_pc => app' = app]_vars

\* A worker has sent both its requests while the live flags are no longer the
\* ones it was started with.
C8_Witness ==
    \E w \in 1..Len(workers) :
        /\ Len(workers[w].requests) = ATTEMPTS
        /\ app.state.flags # workers[w].state.flags
        /\ ~workers[w].stale

(********************* advance_turn, called directly ***********************)
\* advance_turn called over and over on a snapshot, the service answering
\* each request in any way it can.
Snapshots ==
    { push_user_message(App_new, "look"),
      push_user_message(handle_command(App_new, "/add item key").app, "go"),
      push_user_message(handle_command(App_new, "/flag seen").app, "wait"),
      push_user_message(push_user_message(App_new, "look"), "go"),
      push_user_message(
          push_history_chunk(
              push_assistant_reply(
                  push_user_message(
                      handle_command(
                          handle_command(
                              handle_command(
                                  handle_command(App_new, "/add item key").app,
                                  "/add item map").app,
                              "/flag seen").app,
                          "/flag met").app,
                      "look"),
                  "Clerk: Hello."),
              Unwrap(ValueReasoningOnly.output) \o Unwrap(ValueText.output)),
          "hi") }

TurnResponses(attempt) ==
    { [kind |-> "ok", value |-> v] :
        v \in {ValueText, ValueEmpty, ValueReasoningOnly, ValueFallbackOnly, ValueRefusal} }
    \cup {HttpError, SendError, JsonError}
    \cup (IF attempt = 0 THEN {BuildError} ELSE {})

TInit ==
    /\ app \in Snapshots
    /\ debug \in BOOLEAN
    /\ loop_pc = "event"
    /\ workers = <<>>
    /\ appended = <<>>
    /\ lastCall = [op |-> "new", n |-> 0]

\* A call of advance_turn begins once the one before has returned.
TCall ==
    /\ \A w \in 1..Len(workers) : ~Running(w)
    /\ workers' = <<new_worker(app)>>
    /\ UNCHANGED <<app, debug, loop_pc, appended, lastCall>>

TAttempt ==
    /\ Len(workers) = 1
    /\ Running(1)
    /\ \E resp \in TurnResponses(workers[1].attempt) : workers' = worker_step(1, resp)
    /\ UNCHANGED <<app, debug, loop_pc, appended, lastCall>>

TNext ==
    \/ TCall
    \/ TAttempt

SpecTurn == TInit /\ [][TNext]_vars

(************************* claims on advance_turn **************************)
\* The answer had a success status and no text could be extracted from it.
NoText(resp) ==
    resp.kind = "ok" /\ ~IsSome(extract_output_text_and_items(resp.value).text)

NoTextMessage == "No output text found in response."

\* C9: after a success answer without text on attempt 0, advance_turn goes on
\* to exactly one more request, the first request's input with the corrective
\* item appended at its end; if the second answer has no text either,
\* advance_turn returns the "No output text found" error, carrying the
\* diagnostic summary when debug is on; a third request is never sent.
C9_OneRetryThenError ==
    \A w \in 1..Len(workers) :
        LET me == workers[w]
        IN  /\ Len(me.requests) <= 2
            /\ (Len(me.responses) >= 1 /\ NoText(me.responses[1])) =>
                 /\ Len(me.responses) = 1 => (is_running(me) /\ Len(me.requests) = 1)
                 /\ Len(me.requests) = 2 =>
                      me.requests[2].input = Append(me.requests[1].input, corrective_item)
            /\ (Len(me.responses) = 2 /\ NoText(me.responses[1]) /\ NoText(me.responses[2])) =>
                 /\ me.returned
                 /\ Len(me.requests) = 2
                 /\ ~Unwrap(me.result).ok
                 /\ starts_with(Unwrap(me.result).error, NoTextMessage)
                 /\ IF debug
                    THEN Unwrap(me.result).error =
                           NoTextMessage \o " Output summary: "
                             \o extract_output_text_and_items(me.responses[2].value).debug
                    ELSE Unwrap(me.result).error = NoTextMessage

\* Both answers came without text, debug is on, and advance_turn has returned.
C9_Witness ==
    /\ debug
    /\ \E w \in 1..Len(workers) :
         /\ Len(workers[w].responses) = 2
         /\ NoText(workers[w].responses[1])
         /\ NoText(workers[w].responses[2])
         /\ workers[w].returned
         /\ Len(workers[w].requests) = 2

\* C10: an answer with a non-success status, on either attempt, is the last
\* one: advance_turn has returned its error and sent nothing after it; and a
\* second request exists only after a success answer without text.
C10_StatusErrorEndsTurn ==
    \A w \in 1..Len(workers) :
        LET me == workers[w]
        IN  /\ \A i \in 1..Len(me.responses) :
                 me.responses[i].kind = "http_error" =>
                   /\ i = Len(me.responses)
                   /\ Len(me.requests) = i
                   /\ me.returned
                   /\ ~Unwrap(me.result).ok
                   /\ starts_with(Unwrap(me.result).error, "OpenAI API error (")
            /\ Len(me.requests) >= 2 => NoText(me.responses[1])

\* The second request was answered with a non-success status.
C10_Witness ==
    \E w \in 1..Len(workers) :
        /\ Len(workers[w].responses) = 2
        /\ workers[w].responses[2].kind = "http_error"
        /\ workers[w].returned

(************** extract_output_text_and_items, called directly *************)
MaxItems == 2

Part(type, text, refusal) == [type |-> type, text |-> text, refusal |-> refusal]
Item(type, role, content) == [type |-> type, role |-> role, content |-> content]

\* Output items a response can carry: assistant messages with text, with a
\* refusal, with both; a message of another role; an item that is no message.
OutputItems ==
    { Item(Some("message"), Some("assistant"),
           Some(<<Part(Some("output_text"), Some("A"), None)>>)),
      Item(Some("message"), Some("assistant"),
           Some(<<Part(Some("output_text"), Some("B"), None),
                  Part(Some("refusal"), None, Some("Never.")),
                  Part(Some("output_text"), Some("C"), None)>>)),
      Item(Some("message"), Some("assistant"),
           Some(<<Part(Some("refusal"), None, Some("No."))>>)),
      Item(Some("message"), Some("user"),
           Some(<<Part(Some("output_text"), Some("U"), None)>>)),
      Item(Some("tool_call"), None,
           Some(<<Part(Some("refusal"), None, Some("Denied."))>>)),
      Item(Some("reasoning"), None, None),
      Item(Some("message"), Some("assistant"),
           Some(<<Part(Some("output_text"), None, None), Part(None, None, None)>>)) }

RECURSIVE SeqsUpTo(_, _)
SeqsUpTo(S, n) ==
    IF n = 0 THEN {<<>>}
    ELSE LET shorter == SeqsUpTo(S, n - 1)
         IN  shorter \cup {Append(s, x) : s \in shorter, x \in S}

ResponseValues ==
    { [output |-> output, output_text |-> output_text] :
        output \in {None} \cup {Some(items) : items \in SeqsUpTo(OutputItems, MaxItems)},
        output_text \in {None, Some("Fallback.")} }

EInit ==
    /\ app = App_new
    /\ debug = FALSE
    /\ loop_pc = "event"
    /\ workers = <<>>
    /\ appended = <<>>
    /\ lastCall = [op |-> "new", n |-> 0]

EExtract ==
    /\ lastCall.op = "new"
    /\ \E value \in ResponseValues :
         lastCall' = [op    |-> "extract_output_text_and_items",
                      n     |-> 0,
                      value |-> value,
                      out   |-> extract_output_text_and_items(value)]
    /\ UNCHANGED <<app, debug, loop_pc, workers, appended>>

ENext == EExtract

SpecExtract == EInit /\ [][ENext]_vars

(**************** claims on extract_output_text_and_items ******************)
\* The strings of the parts of kind `type` in a content array, in order.
RECURSIVE PartStrings(_, _)
PartStrings(parts, type) ==
    IF Len(parts) = 0 THEN <<>>
    ELSE LET part == Head(parts)
             here == IF part.type = Some(type)
                     THEN IF type = "refusal" THEN part.refusal ELSE part.text
                     ELSE None
         IN  here \o PartStrings(Tail(parts), type)

RECURSIVE AssistantTexts(_)
AssistantTexts(items) ==
    IF Len(items) = 0 THEN <<>>
    ELSE LET item == Head(items)
         IN  (IF item.type = Some("message") /\ item.role = Some("assistant")
                 /\ IsSome(item.content)
              THEN PartStrings(Unwrap(item.content), "output_text")
              ELSE <<>>)
             \o AssistantTexts(Tail(items))

RECURSIVE RefusalTexts(_)
RefusalTexts(items) ==
    IF Len(items) = 0 THEN <<>>
    ELSE (IF IsSome(Head(items).content)
          THEN PartStrings(Unwrap(Head(items).content), "refusal")
          ELSE <<>>)
         \o RefusalTexts(Tail(items))

RECURSIVE Concat(_)
Concat(strings) == IF Len(strings) = 0 THEN "" ELSE Head(strings) \o Concat(Tail(strings))

RECURSIVE NewlineJoined(_)
NewlineJoined(strings) ==
    IF Len(strings) = 1 THEN Head(strings)
    ELSE Head(strings) \o "\n" \o NewlineJoined(Tail(strings))

\* C11: the text extract_output_text_and_items returns is (1) the output_text
\* parts of the assistant messages, concatenated in order with no separator,
\* if there are any; (2) otherwise "Refusal: " and the refusal parts of the
\* whole output joined by newlines, if there are any; (3) otherwise the
\* top-level output_text field if present; (4) otherwise nothing.
C11_ExtractionPrecedence ==
    lastCall.op = "extract_output_text_and_items" =>
        LET value    == lastCall.value
            items    == IF IsSome(value.output) THEN Unwrap(value.output) ELSE <<>>
            texts    == AssistantTexts(items)
            refusals == RefusalTexts(items)
        IN  lastCall.out.text =
              IF Len(texts) > 0 THEN Some(Concat(texts))
              ELSE IF Len(refusals) > 0 THEN Some("Refusal: " \o NewlineJoined(refusals))
              ELSE value.output_text

\* Two refusal parts and a top-level output_text, no assistant text: the
\* refusals win over the fallback field.
C11_Witness ==
    /\ lastCall.op = "extract_output_text_and_items"
    /\ lastCall.value.output_text = Some("Fallback.")
    /\ IsSome(lastCall.value.output)
    /\ Len(AssistantTexts(Unwrap(lastCall.value.output))) = 0
    /\ Len(RefusalTexts(Unwrap(lastCall.value.output))) = 2
    /\ lastCall.out.text = Some("Refusal: No.\nDenied.")

(********************* more claims on advance_turn *************************)
\* The answer had a success status, a refusal part and no assistant text.
RefusalOnly(resp) ==
    /\ resp.kind = "ok"
    /\ IsSome(resp.value.output)
    /\ Len(RefusalTexts(Unwrap(resp.value.output))) > 0
    /\ Len(AssistantTexts(Unwrap(resp.value.output))) = 0

ErrorEntries(log) == Len(SelectSeq(log, LAMBDA entry : entry.kind = "Error"))

\* C12: an answer with a refusal part and no output text ends advance_turn on
\* that very attempt with Ok and a text that starts with "Refusal: "; no
\* request follows it, and the control loop, receiving that result, adds no
\* Error entry to the log and does not set the Error status.
C12_RefusalIsNotAnError ==
    \A w \in 1..Len(workers) :
        LET me == workers[w]
        IN  \A i \in 1..Len(me.responses) :
                RefusalOnly(me.responses[i]) =>
                  /\ i = Len(me.responses)
                  /\ Len(me.requests) = i
                  /\ me.returned
                  /\ Unwrap(me.result).ok
                  /\ starts_with(Unwrap(me.result).text, "Refusal: ")
                  /\ LET after == on_try_recv(app, RecvOk(Unwrap(me.result)), debug)
                     IN  /\ ErrorEntries(after.log) = ErrorEntries(app.log)
                         /\ after.status # "Error"

\* The first answer was a refusal and advance_turn has returned.
C12_Witness ==
    \E w \in 1..Len(workers) :
        /\ Len(workers[w].responses) = 1
        /\ RefusalOnly(workers[w].responses[1])
        /\ workers[w].returned
        /\ Unwrap(workers[w].result).text = "Refusal: No."

(********************** advance_turn as a function *************************)
\* advance_turn from `attempt` on, given the answers the service gives to its
\* requests in order: the requests it sends, the passes of the attempt loop it
\* makes, and its result (None while it waits for an answer not in the list).
RECURSIVE advance_turn_from(_, _, _, _, _, _)
advance_turn_from(history, state, dbg, attempt, last_debug, responses) ==
    IF Len(responses) = 0 \/ attempt >= ATTEMPTS
    THEN [requests |-> <<>>, attempts |-> 0, result |-> None]
    ELSE LET resp == Head(responses)
             out  == attempt_outcome(attempt, resp, dbg, last_debug)
             sent == IF resp.kind = "build_error" THEN <<>>
                     ELSE <<attempt_body(history, state, attempt)>>
         IN  IF out.retry
             THEN LET more == advance_turn_from(history, state, dbg, attempt + 1,
                                                out.last_debug, Tail(responses))
                  IN  [requests |-> sent \o more.requests,
                       attempts |-> 1 + more.attempts,
                       result   |-> more.result]
             ELSE [requests |-> sent, attempts |-> 1, result |-> out.result]

advance_turn(history, state, dbg, responses) ==
    advance_turn_from(history, state, dbg, 0, "", responses)

\* C13: on the answers a call of advance_turn has received, the call with
\* debug on and the call with debug off send the same requests, make the same
\* number of attempts, both return or both wait, and agree on Ok versus Err
\* and on the text and the output items; the call that really ran is the one
\* of them that has the actual debug flag.
C13_DebugNeverSteers ==
    \A w \in 1..Len(workers) :
        LET me   == workers[w]
            on   == advance_turn(me.history, me.state, TRUE, me.responses)
            off  == advance_turn(me.history, me.state, FALSE, me.responses)
            mine == IF debug THEN on ELSE off
        IN  /\ on.requests = off.requests
            /\ on.attempts = off.attempts
            /\ IsSome(on.result) = IsSome(off.result)
            /\ IsSome(on.result) =>
                 /\ Unwrap(on.result).ok = Unwrap(off.result).ok
                 /\ Unwrap(on.result).text = Unwrap(off.result).text
                 /\ Unwrap(on.result).items = Unwrap(off.result).items
            /\ mine.requests = me.requests
            /\ mine.attempts = Len(me.responses)
            /\ mine.result = me.result

\* With debug on, a first answer without text was followed by one with text.
C13_Witness ==
    /\ debug
    /\ \E w \in 1..Len(workers) :
         /\ Len(workers[w].responses) = 2
         /\ NoText(workers[w].responses[1])
         /\ ~NoText(workers[w].responses[2])
         /\ workers[w].responses[2].kind = "ok"
         /\ workers[w].returned
         /\ Unwrap(workers[w].result).ok

(******************** the reply parser, called directly ********************)
MaxReplyLines == 2

\* Lines a reply of the service is made of.
ReplyLines ==
    { "Narrator: You walk in. It is dark.",
      "Clerk: Hello.",
      "clerk: Again.",
      "Clerk: You pick up the can. \"Nice find,\" he says.",
      "Clerk: You grab it. You pick it.",
      "Clerk: Bob: hi",
      "You: I leave.",
      "PLAYER: hi",
      "Clerk:",
      "plain text",
      "  You pick it.",
      "" }

ReplyTexts ==
    { join(ls, "\n") : ls \in SeqsUpTo(ReplyLines, MaxReplyLines) \ {<<>>} }

\* The App before the reply: fresh, or in a dialogue with the Clerk.
ReplyApps == {App_new, push_assistant_reply(App_new, "Clerk: Hello.")}

RInit ==
    /\ app \in ReplyApps
    /\ debug = FALSE
    /\ loop_pc = "event"
    /\ workers = <<>>
    /\ appended = <<>>
    /\ lastCall = [op |-> "new", n |-> 0]

RParse ==
    /\ lastCall.op = "new"
    /\ \E text \in ReplyTexts :
         lastCall' = [op     |-> "parse_speaker_lines",
                      n      |-> 0,
                      text   |-> text,
                      parsed |-> parse_speaker_lines(text)]
    /\ UNCHANGED <<app, debug, loop_pc, workers, appended>>

RReply ==
    /\ lastCall.op = "new"
    /\ \E reply \in ReplyTexts :
         /\ app' = push_assistant_reply(app, reply)
         /\ lastCall' = [op     |-> "push_assistant_reply",
                         n      |-> 0,
                         text   |-> reply,
                         before |-> app]
    /\ UNCHANGED <<debug, loop_pc, workers, appended>>

RNext ==
    \/ RParse
    \/ RReply

SpecReply == RInit /\ [][RNext]_vars

(*********************** claims on the reply parser ************************)
DisallowedLabels == {"you", "player", "user"}

\* The entries the call of push_assistant_reply added to the log.
NewEntries == SubSeq(app.log, Len(lastCall.before.log) + 1, Len(app.log))

\* C14: whatever the reply, no Assistant entry of the log has a speaker that
\* is, letter case aside, You, Player or User: neither an entry made from a
\* parsed block nor the entry of the fallback path.
C14_NoDisallowedSpeaker ==
    \A i \in 1..Len(app.log) :
        app.log[i].kind = "Assistant" =>
            /\ IsSome(app.log[i].speaker)
            /\ to_lowercase(trim(Unwrap(app.log[i].speaker))) \notin DisallowedLabels

\* A reply with a line labelled PLAYER and another that made it to the log.
C14_Witness ==
    /\ lastCall.op = "push_assistant_reply"
    /\ contains(lastCall.text, "PLAYER: hi")
    /\ Len(NewEntries) > 0
    /\ lastCall.before.log # app.log

Label(line) == parse_speaker_label(line)

\* Lines i and i+1 of `ls` both carry a label, the same one letter case
\* aside, and it is not a disallowed one.
SameSpeakerPair(ls, i) ==
    /\ i + 1 <= Len(ls)
    /\ IsSome(Label(ls[i]))
    /\ IsSome(Label(ls[i + 1]))
    /\ to_lowercase(Unwrap(Label(ls[i])).speaker)
         = to_lowercase(Unwrap(Label(ls[i + 1])).speaker)
    /\ to_lowercase(Unwrap(Label(ls[i])).speaker) \notin DisallowedLabels

\* The line's remainder is not blank and is not repaired as narration
\* misattributed to its speaker.
PlainRemainder(line) ==
    LET label == Unwrap(Label(line))
    IN  /\ Len(trim(label.rest)) > 0
        /\ \/ to_lowercase(label.speaker) = "narrator"
           \/ ~starts_with_you_action(label.rest)

BlocksOf(entries, speaker) ==
    {k \in 1..Len(entries) : to_lowercase(entries[k].speaker) = to_lowercase(speaker)}

\* C15 as stated: a text of two lines labelled with the same speaker parses
\* into exactly one block of that speaker, whatever the remainders are.
C15_AlwaysOneMergedBlock ==
    (lastCall.op = "parse_speaker_lines" /\ Len(lines(lastCall.text)) = 2
       /\ SameSpeakerPair(lines(lastCall.text), 1)) =>
        Cardinality(BlocksOf(lastCall.parsed.entries,
                             Unwrap(Label(lines(lastCall.text)[1])).speaker)) = 1

\* C15, amended: two consecutive lines labelled with the same speaker, both
\* with a remainder that is not blank and is not repaired as misattributed
\* narration, end up in one block of that speaker, the first remainder, a
\* newline and the second remainder; a text of just these two lines parses
\* into that one block alone.
C15_MergedWhenPlain ==
    lastCall.op = "parse_speaker_lines" =>
        LET ls      == lines(lastCall.text)
            entries == lastCall.parsed.entries
        IN  \A i \in 1..Len(ls) :
              (SameSpeakerPair(ls, i) /\ PlainRemainder(ls[i]) /\ PlainRemainder(ls[i + 1])) =>
                /\ \E k \in BlocksOf(entries, Unwrap(Label(ls[i])).speaker) :
                     contains(entries[k].text,
                              trim_end(Unwrap(Label(ls[i])).rest) \o "\n"
                                \o trim_end(Unwrap(Label(ls[i + 1])).rest))
                /\ Len(ls) = 2 => Len(entries) = 1

\* "Clerk: Hello." and "clerk: Again." were parsed into the one block.
C15_Witness ==
    /\ lastCall.op = "parse_speaker_lines"
    /\ lastCall.text = "Clerk: Hello.\nclerk: Again."
    /\ lastCall.parsed.entries = <<ParsedEntry("Clerk", "Hello.\nAgain.")>>

ends_with(s, suffix) ==
    Len(suffix) <= Len(s) /\ SubSeq(s, Len(s) - Len(suffix) + 1, Len(s)) = suffix

\* The line carries the label of a speaker other than the Narrator (and not a
\* disallowed one), and its remainder begins with "you " and an action verb
\* and holds a quotation mark.
MisattributedWithQuote(line) ==
    /\ IsSome(Label(line))
    /\ to_lowercase(Unwrap(Label(line)).speaker) \notin (DisallowedLabels \cup {"narrator"})
    /\ starts_with_you_action(Unwrap(Label(line)).rest)
    /\ contains(Unwrap(Label(line)).rest, "\"")

BeforeQuote(rest) == trim(SubSeq(rest, 1, Unwrap(find(rest, "\"")) - 1))
FromQuote(rest) == trim(SubSeq(rest, Unwrap(find(rest, "\"")), Len(rest)))

\* C16: a line labelled with a speaker S other than the Narrator whose
\* remainder begins with "you " and an action verb and holds a quotation mark
\* gives two neighbouring blocks: a Narrator block that ends with the text
\* before the first quotation mark, then a block of S that starts at that
\* quotation mark.  The Clerk example, parsed alone, gives exactly
\* (Narrator, "You pick up the can.") and (Clerk, "\"Nice find,\" he says.").
C16_MisattributionSplit ==
    lastCall.op = "parse_speaker_lines" =>
        LET ls      == lines(lastCall.text)
            entries == lastCall.parsed.entries
        IN  \A i \in 1..Len(ls) :
              MisattributedWithQuote(ls[i]) =>
                LET S    == Unwrap(Label(ls[i])).speaker
                    rest == Unwrap(Label(ls[i])).rest
                IN  /\ \E k \in 1..(Len(entries) - 1) :
                         /\ entries[k].speaker = "Narrator"
                         /\ ends_with(entries[k].text, BeforeQuote(rest))
                         /\ entries[k + 1].speaker = S
                         /\ starts_with(entries[k + 1].text, FromQuote(rest))
                    /\ Len(ls) = 1 =>
                         entries = <<ParsedEntry("Narrator", BeforeQuote(rest)),
                                     ParsedEntry(S, FromQuote(rest))>>

\* The Clerk example was parsed alone, into its two blocks.
C16_Witness ==
    /\ lastCall.op = "parse_speaker_lines"
    /\ lastCall.text = "Clerk: You pick up the can. \"Nice find,\" he says."
    /\ lastCall.parsed.entries = <<ParsedEntry("Narrator", "You pick up the can."),
                                   ParsedEntry("Clerk", "\"Nice find,\" he says.")>>
    /\ lastCall.parsed.last_speaker = Some("Clerk")

\* The blocks written out as "Speaker: text", one block after the other.
RECURSIVE Serialize(_)
Serialize(entries) ==
    IF Len(entries) = 0 THEN ""
    ELSE Head(entries).speaker \o ": " \o Head(entries).text
         \o (IF Len(entries) > 1 THEN "\n" \o Serialize(Tail(entries)) ELSE "")

Reparsed(entries) == parse_speaker_lines(Serialize(entries)).entries

\* C17 as stated: the blocks of any parse, written out and parsed again, are
\* the same blocks.
C17_AlwaysIdempotent ==
    lastCall.op = "parse_speaker_lines" =>
        Reparsed(lastCall.parsed.entries) = lastCall.parsed.entries

\* The text of the block can be told from its "Speaker: text" line: it starts
\* with no white space, no line after its first reads as a speaker label, and
\* unless the block is the Narrator's it does not begin with "you " and an
\* action verb.
ReadsBack(entry) ==
    /\ Head(entry.text) \notin Whitespace
    /\ \A j \in 2..Len(lines(entry.text)) : ~IsSome(Label(lines(entry.text)[j]))
    /\ entry.speaker = "Narrator" \/ ~starts_with_you_action(entry.text)

\* C17, amended: the blocks of a parse, written out as "Speaker: text" and
\* parsed again, are the same blocks, provided every block text starts with no
\* white space, has no later line that reads as a speaker label, and, for a
\* speaker other than the Narrator, does not begin with "you " and an action
\* verb.
C17_IdempotentWhenReadsBack ==
    (lastCall.op = "parse_speaker_lines"
       /\ \A k \in 1..Len(lastCall.parsed.entries) : ReadsBack(lastCall.parsed.entries[k])) =>
        Reparsed(lastCall.parsed.entries) = lastCall.parsed.entries

\* A parse into two blocks that read back as they are.
C17_Witness ==
    /\ lastCall.op = "parse_speaker_lines"
    /\ Len(lastCall.parsed.entries) = 2
    /\ \A k \in 1..2 : ReadsBack(lastCall.parsed.entries[k])
    /\ lastCall.parsed.entries[2].speaker = "Clerk"
    /\ Reparsed(lastCall.parsed.entries) = lastCall.parsed.entries

\* The parse push_assistant_reply made of the reply.
ReplyParse == parse_speaker_lines(trim(lastCall.text))

\* C18: after push_assistant_reply on a reply whose parse has at least one
\* block, active_speaker is None if the candidate trailing speaker is the
\* Narrator or absent, and otherwise is that trailing speaker's label,
\* whatever active_speaker was before; and the log has gained the blocks.
C18_ActiveSpeakerTransition ==
    (lastCall.op = "push_assistant_reply" /\ Len(ReplyParse.entries) >= 1) =>
        /\ app.state.active_speaker =
             IF ~IsSome(ReplyParse.last_speaker) THEN None
             ELSE IF to_lowercase(Unwrap(ReplyParse.last_speaker)) = "narrator" THEN None
             ELSE ReplyParse.last_speaker
        /\ Len(NewEntries) = Len(ReplyParse.entries)

\* The Clerk was the active speaker and the reply ended on the Narrator.
C18_Witness ==
    /\ lastCall.op = "push_assistant_reply"
    /\ lastCall.before.state.active_speaker = Some("Clerk")
    /\ Len(ReplyParse.entries) >= 1
    /\ ReplyParse.last_speaker = Some("Narrator")
    /\ app.state.active_speaker = None

\* C20: when the parse of the reply has no block, push_assistant_reply adds
\* at most one entry to the log, an Assistant entry of the Narrator holding
\* the reply without its disallowed-speaker lines, and adds it only if that
\* text is not blank; and active_speaker is None afterwards.
C20_FallbackResetsSpeaker ==
    (lastCall.op = "push_assistant_reply" /\ Len(ReplyParse.entries) = 0) =>
        LET stripped == trim(strip_disallowed_speaker_lines(trim(lastCall.text)))
        IN  /\ NewEntries = IF Len(stripped) > 0
                            THEN <<[kind |-> "Assistant", speaker |-> Some("Narrator"),
                                    text |-> stripped]>>
                            ELSE <<>>
            /\ app.state.active_speaker = None

(************************ the session in a dialogue ************************)
MaxTurns == 2

\* What the player submits: a remark, and a line with the exit cue "i'm gone".
DialogueInputs == {"hi", "ok i'm gone"}

ValueClerk ==
    [ output |-> Some(<<[ type |-> Some("message"), role |-> Some("assistant"),
                          content |-> Some(<<[ type |-> Some("output_text"),
                                               text |-> Some("Clerk: Stay."),
                                               refusal |-> None ]>>) ]>>),
      output_text |-> None ]

DialogueResponses == {[kind |-> "ok", value |-> v] : v \in {ValueText, ValueClerk}}

\* The busy branch of the run_app that goes with app.rs: as on_try_recv, with
\* the reply handed to push_assistant_reply, which writes the log entries and
\* makes the active-speaker transition.
on_try_recv_session(a, recv, dbg) ==
    IF recv.kind = "Ok" /\ recv.result.ok
    THEN With(push_assistant_reply([a EXCEPT !.pending_response = None, !.busy = FALSE],
                                   recv.result.text), LAMBDA a2 :
         With(push_history_chunk(a2, recv.result.items), LAMBDA a3 :
            [(IF dbg THEN push_log(a3, "System", recv.result.debug) ELSE a3)
             EXCEPT !.state.turn = saturating_add_one(@), !.status = "Ready"]))
    ELSE on_try_recv(a, recv, dbg)

DInit ==
    /\ app \in ReplyApps
    /\ debug = FALSE
    /\ loop_pc = "event"
    /\ workers = <<>>
    /\ appended = <<>>
    /\ lastCall = [op |-> "new", n |-> 0]

DNoEvent ==
    /\ loop_pc = "event"
    /\ \E max_scroll \in 0..MaxOverflow : app' = draw_ui(app, max_scroll)
    /\ loop_pc' = "turn"
    /\ UNCHANGED <<debug, workers, appended, lastCall>>

\* The player types a line and presses Enter.  lastCall keeps the line and
\* whether it carried the exit cue while a dialogue was active.
DKeyEvent ==
    /\ loop_pc = "event"
    /\ lastCall.n < MaxTurns
    /\ app.input = ""
    /\ \E max_scroll \in 0..MaxOverflow, line \in DialogueInputs :
         LET drawn == draw_ui(app, max_scroll)
             r     == handle_keys(drawn, Append(CharKeys(line), Key("Enter", "", FALSE)))
         IN  /\ app' = r.app
             /\ lastCall' = [op   |-> "handle_key_event",
                             n    |-> lastCall.n + 1,
                             text |-> line,
                             exit |-> /\ IsSome(app.state.active_speaker)
                                      /\ contains(to_lowercase(line), "i'm gone")]
    /\ loop_pc' = "turn"
    /\ UNCHANGED <<debug, workers, appended>>

DPollResponse ==
    /\ loop_pc = "turn"
    /\ loop_skips_start(app)
    /\ IF app.busy /\ IsSome(app.pending_response)
       THEN LET a == on_try_recv_session(app, try_recv(Unwrap(app.pending_response)), debug)
            IN  /\ app' = a
                /\ workers' = drop_receiver(workers, app.pending_response,
                                            a.pending_response)
       ELSE UNCHANGED <<app, workers>>
    /\ loop_pc' = "event"
    /\ UNCHANGED <<debug, appended, lastCall>>

\* The turn for the pending input starts; `appended` keeps, for each worker,
\* the submission it was started for.
DStartTurn ==
    /\ loop_pc = "turn"
    /\ ~loop_skips_start(app)
    /\ IsSome(app.pending_input)
    /\ Len(workers) < MaxTurns
    /\ \E max_scroll \in 0..MaxOverflow :
         app' = draw_ui(on_start_turn(app, Len(workers) + 1), max_scroll)
    /\ workers' = Append(workers, new_worker(app))
    /\ appended' = Append(appended, lastCall)
    /\ loop_pc' = "event"
    /\ UNCHANGED <<debug, lastCall>>

DIdle ==
    /\ loop_pc = "turn"
    /\ ~loop_skips_start(app)
    /\ ~IsSome(app.pending_input) \/ Len(workers) >= MaxTurns
    /\ loop_pc' = "event"
    /\ UNCHANGED <<app, debug, workers, appended, lastCall>>

DWorkerAttempt ==
    /\ \E w \in 1..Len(workers) :
         /\ Running(w)
         /\ \E resp \in DialogueResponses : workers' = worker_step(w, resp)
    /\ UNCHANGED <<app, debug, loop_pc, appended, lastCall>>

DNext ==
    \/ DNoEvent
    \/ DKeyEvent
    \/ DPollResponse
    \/ DStartTurn
    \/ DIdle
    \/ DWorkerAttempt

SpecDialogue == DInit /\ [][DNext]_vars

ReceivesOk ==
    /\ loop_pc = "turn"
    /\ app.busy
    /\ IsSome(app.pending_response)
    /\ try_recv(Unwrap(app.pending_response)).kind = "Ok"
    /\ try_recv(Unwrap(app.pending_response)).result.ok

\* The result the loop is about to receive.
Received == try_recv(Unwrap(app.pending_response)).result

AssistantEntries(log) == SelectSeq(log, LAMBDA entry : entry.kind = "Assistant")

\* The reply is the single line "Narrator: T" with T not empty.
SingleNarratorLine(reply) ==
    /\ Len(lines(reply)) = 1
    /\ starts_with(reply, "Narrator: ")
    /\ Len(trim(SubSeq(reply, Len("Narrator: ") + 1, Len(reply)))) > 0

\* C21: in a fresh session (turn 0, no active speaker, no reply in the log
\* yet), when the loop takes the successful result of a turn whose reply is
\* the single line "Narrator: T", the log gains exactly one Assistant entry,
\* with speaker Narrator and text T, turn becomes 1 and active_speaker stays
\* None.
C21_EndToEndTurn ==
    [][(/\ ReceivesOk
        /\ loop_pc' # loop_pc
        /\ app.state.turn = 0
        /\ app.state.active_speaker = None
        /\ AssistantEntries(app.log) = <<>>
        /\ SingleNarratorLine(Received.text)) =>
          /\ AssistantEntries(app'.log) =
               <<[kind    |-> "Assistant",
                  speaker |-> Some("Narrator"),
                  text    |-> trim(SubSeq(Received.text, Len("Narrator: ") + 1,
                                          Len(Received.text)))]>>
          /\ app'.state.turn = 1
          /\ app'.state.active_speaker = None]_vars

(************* the session: commands, failing turns, new games *************)
\* The control loop with a player who submits plain lines and slash commands
\* and starts new games, and a service that answers, fails or is cut off.
MaxSubmits == 3

SessionLines == {"go", "/flag a", "/flag b", "/unflag a", "/new", "/quit", "/x"}

\* What the player does at an empty input box: types a line and presses
\* Enter, or presses Ctrl-N.
SessionKeys ==
    {Append(CharKeys(line), Key("Enter", "", FALSE)) : line \in SessionLines}
    \cup {<<Key("Char", "n", TRUE)>>}

\* The text the keys put into the input box.
RECURSIVE typed(_)
typed(keys) ==
    IF Len(keys) = 0 THEN ""
    ELSE (IF Head(keys).code = "Char" /\ ~Head(keys).ctrl THEN Head(keys).ch ELSE "")
         \o typed(Tail(keys))

\* An assistant message whose text is white space alone.
ValueBlank ==
    [ output |-> Some(<<[ type |-> Some("message"), role |-> Some("assistant"),
                          content |-> Some(<<[ type |-> Some("output_text"),
                                               text |-> Some("  "),
                                               refusal |-> None ]>>) ]>>),
      output_text |-> None ]

SessionResponses(attempt) ==
    IF attempt = 0
    THEN {[kind |-> "ok", value |-> v] : v \in {ValueText, ValueEmpty, ValueBlank}}
         \cup {HttpError}
    ELSE {[kind |-> "ok", value |-> ValueEmpty], SendError}

\* terminal.draw, then event::poll and handle_key_event on the keys read.
\* lastCall keeps the line submitted and whether the keys ended in a reset.
SKeyEvent ==
    /\ loop_pc = "event"
    /\ lastCall.n < MaxSubmits
    /\ \E max_scroll \in 0..MaxOverflow, keys \in SessionKeys :
         LET drawn == draw_ui(app, max_scroll)
             r     == handle_keys(drawn, keys)
             ws    == drop_receiver(workers, drawn.pending_response, r.app.pending_response)
         IN  /\ app' = r.app
             /\ loop_pc' = IF r.quit THEN "done" ELSE "turn"
             /\ workers' = release_ended(IF key_resets(drawn, keys)
                                          THEN mark_stale(ws) ELSE ws)
             /\ lastCall' = [op    |-> "handle_key_event",
                             n     |-> lastCall.n + 1,
                             text  |-> typed(keys),
                             reset |-> key_resets(drawn, keys)]
    /\ UNCHANGED <<debug, appended>>

SWorkerAttempt(w) ==
    /\ loop_pc # "done"
    /\ Running(w)
    /\ \E resp \in SessionResponses(workers[w].attempt) : workers' = worker_step(w, resp)
    /\ UNCHANGED <<app, debug, loop_pc, appended, lastCall>>

SNext ==
    \/ LoopNoEvent
    \/ SKeyEvent
    \/ LoopPollResponse
    \/ LoopStartTurn
    \/ LoopIdle
    \/ \E w \in 1..Len(workers) : SWorkerAttempt(w)
    \/ \E w \in 1..Len(workers) : WorkerPanic(w)

SpecSession == Init /\ [][SNext]_vars

(************************ claims on the session ****************************)
\* The loop is about to learn that the pending turn failed: the worker sent
\* an error, or its channel is disconnected.
ReceivesFailure ==
    /\ loop_pc = "turn"
    /\ app.busy
    /\ IsSome(app.pending_response)
    /\ \/ /\ try_recv(Unwrap(app.pending_response)).kind = "Ok"
          /\ ~try_recv(Unwrap(app.pending_response)).result.ok
       \/ try_recv(Unwrap(app.pending_response)).kind = "Disconnected"

\* The text of the Error entry the loop writes for the failure it receives.
FailureText ==
    IF try_recv(Unwrap(app.pending_response)).kind = "Ok"
    THEN try_recv(Unwrap(app.pending_response)).result.error
    ELSE "Response channel disconnected."

\* C22: when the pending worker reports an error (a transport error or the
\* lack of output text) or its channel is disconnected, that loop iteration
\* appends exactly one log entry, of kind Error and with the failure's text,
\* clears busy and the pending handle, leaves turn, history and the rest of
\* the GameState as they are, and the loop goes on to its next iteration; and
\* whenever the loop, not busy, finds a pending input, it starts a new worker
\* for it and holds its handle.
C22_FailureIsLocal ==
    /\ [][(ReceivesFailure /\ loop_pc' # loop_pc) =>
            /\ app'.log = Append(app.log, [kind    |-> "Error",
                                           speaker |-> None,
                                           text    |-> FailureText])
            /\ ~app'.busy
            /\ app'.pending_response = None
            /\ app'.state = app.state
            /\ app'.history = app.history
            /\ loop_pc' = "event"]_vars
    /\ [][(loop_pc = "turn" /\ ~app.busy /\ IsSome(app.pending_input)
             /\ loop_pc' # loop_pc) =>
            /\ Len(workers') = Len(workers) + 1
            /\ is_running(workers'[Len(workers')])
            /\ app'.pending_response = Some(Len(workers'))
            /\ app'.busy]_vars

\* A turn failed with a transport error, the player then submitted a line,
\* and the loop has started the worker for it.
C22_Witness ==
    /\ app.busy
    /\ app.pending_response = Some(Len(workers))
    /\ Running(Len(workers))
    /\ \E i \in 1..Len(app.log) :
         /\ app.log[i].kind = "Error"
         /\ starts_with(app.log[i].text, "OpenAI API error (")
         /\ \E j \in (i + 1)..Len(app.log) : app.log[j].kind = "User"

NoDuplicates(v) == \A i, j \in 1..Len(v) : v[i] = v[j] => i = j

\* C23: whatever /flag, /unflag and new-game commands the player has given,
\* GameState.flags holds no flag twice, and neither does the snapshot of any
\* turn worker.
C23_FlagsAreDistinct ==
    /\ NoDuplicates(app.state.flags)
    /\ \A w \in 1..Len(workers) : NoDuplicates(workers[w].state.flags)

\* Two flags are set and the player has just asked for one of them again.
C23_Witness ==
    /\ Len(app.state.flags) = 2
    /\ lastCall.op = "handle_key_event"
    /\ lastCall.text = "/flag a"
    /\ app.log[Len(app.log)].text = "Flag already set: a"

\* This step is the loop reading a line that starts with "/".
SubmitsCommand == lastCall' # lastCall /\ starts_with(lastCall'.text, "/")

\* C24 as stated: the step in which a line starting with "/" is submitted adds
\* no chunk to the history, sets no pending_input, leaves turn as it is and
\* starts no worker, whatever the command.
C24_CommandsChangeNoTurn ==
    [][SubmitsCommand =>
         /\ Len(app'.history) <= Len(app.history)
         /\ IsSome(app'.pending_input) => app'.pending_input = app.pending_input
         /\ app'.state.turn = app.state.turn
         /\ Len(workers') = Len(workers)]_vars

\* C24, amended: a line starting with "/" other than /new, recognised or not,
\* leaves history, pending_input, last_sent_input, turn, busy and the pending
\* handle as they are and starts no worker; /new resets the session, which
\* empties the history, clears pending_input and the handle and puts turn back
\* to 0.  A worker is started only while pending_input is set, and
\* pending_input is set only by a line that does not start with "/".
C24_CommandsBypassService ==
    /\ [][SubmitsCommand =>
            /\ Len(workers') = Len(workers)
            /\ IF lastCall'.text = "/new"
               THEN /\ app'.history = <<>>
                    /\ app'.pending_input = None
                    /\ app'.pending_response = None
                    /\ app'.state = GameState_new
               ELSE /\ app'.history = app.history
                    /\ app'.pending_input = app.pending_input
                    /\ app'.last_sent_input = app.last_sent_input
                    /\ app'.state.turn = app.state.turn
                    /\ app'.busy = app.busy
                    /\ app'.pending_response = app.pending_response]_vars
    /\ [][Len(workers') > Len(workers) => IsSome(app.pending_input)]_vars
    /\ [][(IsSome(app'.pending_input) /\ app'.pending_input # app.pending_input) =>
            (lastCall' # lastCall /\ ~starts_with(lastCall'.text, "/"))]_vars

\* After a completed turn the player gave a command the program does not
\* know, and no input is pending.
C24_Witness ==
    /\ lastCall.op = "handle_key_event"
    /\ lastCall.text = "/x"
    /\ app.log[Len(app.log)].text = "Unknown command. Try /help."
    /\ app.state.turn = 1
    /\ app.pending_input = None
    /\ Len(workers) = 1

IsPrefix(s, t) == Len(s) <= Len(t) /\ SubSeq(t, 1, Len(s)) = s

\* This step is the loop reading keys that end in a session reset.
ResetsSession == lastCall' # lastCall /\ lastCall'.reset

\* C25: in every step that is not a session reset, the log before the step is
\* a prefix of the log after it: entries are added at the end and never
\* removed, reordered or changed; a session reset leaves the one entry that
\* announces the new game.
C25_LogAppendOnly ==
    [][IF ResetsSession
       THEN app'.log = <<[kind |-> "System", speaker |-> None,
                          text |-> "New game. Describe what you do to begin."]>>
       ELSE IsPrefix(app.log, app'.log)]_vars

\* The log holds what the player typed, an answer, an error and a notice of a
\* command, one after the other.
C25_Witness ==
    /\ Len(app.log) >= 5
    /\ \E i, j, k, l \in 1..Len(app.log) :
         /\ i < j /\ j < k /\ k < l
         /\ app.log[i].kind = "User"
         /\ app.log[j].kind = "Assistant"
         /\ app.log[k].kind = "Error"
         /\ app.log[l].kind = "System"

\* C26: turn starts at 0, and in every step it stays as it is, or goes up by
\* exactly one, which happens in the step in which the loop takes a successful
\* result and in no other, or returns to 0, which happens only in a session
\* reset; it stays as it is when the loop takes a failure and when a slash
\* command other than /new is submitted.
C26_TurnCounter ==
    /\ app.state.turn = 0
    /\ [][/\ \/ app'.state.turn = app.state.turn
             \/ /\ app'.state.turn = app.state.turn + 1
                /\ ReceivesOk
                /\ loop_pc' # loop_pc
             \/ /\ app'.state.turn = 0
                /\ ResetsSession
          /\ (ReceivesOk /\ loop_pc' # loop_pc) => app'.state.turn = app.state.turn + 1
          /\ (ReceivesFailure /\ loop_pc' # loop_pc) => app'.state.turn = app.state.turn
          /\ (SubmitsCommand /\ ~ResetsSession) => app'.state.turn = app.state.turn]_vars

\* One turn succeeded, the next one failed, and turn is 1.
C26_Witness ==
    /\ app.state.turn = 1
    /\ ~app.busy
    /\ \E i, j \in 1..Len(app.log) :
         /\ i < j
         /\ app.log[i].kind = "Assistant"
         /\ app.log[j].kind = "Error"

(******************* claims on the request of a turn ***********************)
RECURSIVE CommaJoined(_)
CommaJoined(names) ==
    IF Len(names) = 1 THEN names[1]
    ELSE names[1] \o ", " \o CommaJoined(Tail(names))

\* The system preamble for a GameState snapshot.
Preamble(state) ==
    SYSTEM_PROMPT
    \o "\nCurrent turn: " \o ToString(state.turn)
    \o "\nLocation: " \o state.location
    \o "\nInventory: " \o (IF state.inventory = <<>> THEN "Empty"
                           ELSE CommaJoined(state.inventory))
    \o "\nFlags: " \o (IF state.flags = <<>> THEN "None" ELSE CommaJoined(state.flags))
    \o "\nCurrent speaker: " \o (IF state.active_speaker = None THEN "Narrator"
                                 ELSE state.active_speaker[1])

\* The number of items in the chunks of the history that come before chunk c.
RECURSIVE ItemsBefore(_, _)
ItemsBefore(history, c) ==
    IF c <= 1 THEN 0 ELSE ItemsBefore(history, c - 1) + Len(history[c - 1])

\* C27: the item list of every request of a turn starts with one system item
\* whose content is the instruction text and the rendered GameState snapshot
\* (an empty inventory as "Empty", no flags as "None", no active speaker as
\* "Narrator"); behind it come the items of the history chunks, chunk after
\* chunk and in the order they have inside their chunk; the first request
\* holds nothing else and the second request one more item, the corrective
\* one, at its end; no item but the first is a system item.
C27_RequestItemOrder ==
    \A w \in 1..Len(workers) :
        \A i \in 1..Len(workers[w].requests) :
            LET input   == workers[w].requests[i].input
                history == workers[w].history
                total   == ItemsBefore(history, Len(history) + 1)
            IN  /\ input[1] = [role |-> "system", content |-> Preamble(workers[w].state)]
                /\ \A c \in 1..Len(history) :
                     \A k \in 1..Len(history[c]) :
                         input[1 + ItemsBefore(history, c) + k] = history[c][k]
                /\ Len(input) = 1 + total + (IF i = 1 THEN 0 ELSE 1)
                /\ i = 2 => input[Len(input)] = corrective_item
                /\ \A p \in 2..Len(input) : input[p].role # "system"

\* Both requests of a turn were sent from a snapshot with an active speaker,
\* items in the inventory, flags, and a history chunk of more than one item.
C27_Witness ==
    \E w \in 1..Len(workers) :
        /\ Len(workers[w].requests) = 2
        /\ workers[w].state.active_speaker = Some("Clerk")
        /\ Len(workers[w].state.inventory) = 2
        /\ Len(workers[w].state.flags) = 2
        /\ \E c \in 1..Len(workers[w].history) : Len(workers[w].history[c]) = 2
        /\ Len(workers[w].requests[2].input) = 6

(********************* set_scene_ascii, called directly ********************)
MaxScenePieces == 3

\* What a scene text is put together from.
ScenePieces == {"\n", "\r\n", "\r", " ", "#", "/\\"}

SceneTexts == {Concat(pieces) : pieces \in SeqsUpTo(ScenePieces, MaxScenePieces)}

\* The App before the call: fresh, or with a scene drawn already.
SceneInit ==
    /\ app \in {App_new, set_scene_ascii(App_new, "#")}
    /\ debug = FALSE
    /\ loop_pc = "event"
    /\ workers = <<>>
    /\ appended = <<>>
    /\ lastCall = [op |-> "new", n |-> 0]

SSetSceneAscii ==
    /\ lastCall.op # "set_scene_ascii"
    /\ \E ascii \in SceneTexts :
         /\ app' = set_scene_ascii(app, ascii)
         /\ lastCall' = [op     |-> "set_scene_ascii",
                         n      |-> 0,
                         text   |-> ascii,
                         before |-> app]
    /\ UNCHANGED <<debug, loop_pc, workers, appended>>

SceneNext ==
    \/ SSetSceneAscii
    \/ HReset

SpecScene == SceneInit /\ [][SceneNext]_vars

(*********************** claims on set_scene_ascii *************************)
\* The text with every "\r" that stands right before a "\n" left out.
RECURSIVE WithoutCrBeforeLf(_, _)
WithoutCrBeforeLf(s, i) ==
    IF i > Len(s) THEN ""
    ELSE (IF CharAt(s, i) = "\r" /\ i < Len(s) /\ CharAt(s, i + 1) = "\n"
          THEN "" ELSE CharAt(s, i))
         \o WithoutCrBeforeLf(s, i + 1)

\* The part of s from its first to its last character that is no newline.
BetweenNewlines(s) ==
    LET inner == {i \in 1..Len(s) : CharAt(s, i) # "\n"}
    IN  IF inner = {} THEN ""
        ELSE SubSeq(s, CHOOSE i \in inner : \A j \in inner : i <= j,
                       CHOOSE i \in inner : \A j \in inner : i >= j)

Blank(s) == \A i \in 1..Len(s) : CharAt(s, i) \in Whitespace

\* C28: scene_ascii is never blank; after set_scene_ascii it is the input
\* with each CRLF made an LF and the newlines at both ends taken off, or the
\* placeholder "Awaiting scene..." if that text is blank; and the call
\* changes no other field of the App.
C28_SceneNeverBlank ==
    /\ ~Blank(app.scene_ascii)
    /\ lastCall.op = "set_scene_ascii" =>
         LET text == BetweenNewlines(WithoutCrBeforeLf(lastCall.text, 1))
         IN  /\ app.scene_ascii = IF Blank(text) THEN "Awaiting scene..." ELSE text
             /\ app = [lastCall.before EXCEPT !.scene_ascii = app.scene_ascii]

\* A drawing between a CRLF and a newline was stored without them, over an
\* earlier scene.
C28_Witness ==
    /\ lastCall.op = "set_scene_ascii"
    /\ lastCall.text = "\r\n/\\\n"
    /\ app.scene_ascii = "/\\"
    /\ lastCall.before.scene_ascii = "#"

\* C29: when advance_turn returns Ok, the answer that gave the text is the
\* last one it received (every answer before it had no text), and the items
\* it returns are that answer's output list as it came, in order (the list of
\* the second answer, not of the first, when the retry succeeded; no items
\* when the answer has no output list); the loop, receiving the result, puts
\* these items behind the history as one chunk, and adds nothing when there
\* are none.
C29_ItemsVerbatim ==
    \A w \in 1..Len(workers) :
        (workers[w].returned /\ Unwrap(workers[w].result).ok) =>
            LET me    == workers[w]
                last  == me.responses[Len(me.responses)]
                items == Unwrap(me.result).items
                after == on_try_recv(app, RecvOk(Unwrap(me.result)), debug)
            IN  /\ last.kind = "ok"
                /\ ~NoText(last)
                /\ \A i \in 1..(Len(me.responses) - 1) : NoText(me.responses[i])
                /\ items = IF last.value.output = None THEN <<>>
                           ELSE last.value.output[1]
                /\ after.history = IF items = <<>> THEN app.history
                                   ELSE Append(app.history, items)

\* The first answer held a reasoning item and no text, the second one a
\* message with text: the items returned are the message alone.
C29_Witness ==
    \E w \in 1..Len(workers) :
        /\ workers[w].returned
        /\ Len(workers[w].responses) = 2
        /\ workers[w].responses[1].value = ValueReasoningOnly
        /\ workers[w].responses[2].value = ValueText
        /\ Unwrap(workers[w].result).ok
        /\ Unwrap(workers[w].result).items = ValueText.output[1]

(*** app.rs: the speaker label of a single line ***)

RECURSIVE Repeat(_, _)
Repeat(s, n) == IF n = 0 THEN "" ELSE s \o Repeat(s, n - 1)

\* Candidate labels: valid names, names at and one past the length limit in
\* ASCII letters and in two-byte letters, and one label for each way of
\* failing a condition.
LabelTexts ==
    { "", "Clerk", "narrator", "Old Man", "O'Neil", "Jean-Luc", "R2D2", "42",
      "-", "Dr.", "a_b", "A\"b", "you", "Renée",
      Repeat("a", MAX_LABEL_LEN),
      Repeat("a", MAX_LABEL_LEN + 1),
      Repeat("é", MAX_LABEL_LEN \div 2),
      Repeat("é", MAX_LABEL_LEN \div 2 + 1),
      Repeat("é", MAX_LABEL_LEN) }

\* Lines around a label: optional indentation, optional padding before the
\* colon, and the text after the label, which may lack the colon altogether.
LabelLines ==
    { lead \o label \o pad \o tail :
        lead \in {"", "  "}, label \in LabelTexts, pad \in {"", " "},
        tail \in {": hi", ":", ":hi", " hi", ": a: b"} }

\* One line of a reply handed to the label parser and to the line loop of
\* parse_speaker_lines.
LParseLabel ==
    /\ lastCall.op = "new"
    /\ \E line \in LabelLines :
         lastCall' = [op    |-> "parse_speaker_label",
                      n     |-> 0,
                      line  |-> line,
                      out   |-> parse_speaker_label(line),
                      state |-> parse_line(ParseStart, line)]
    /\ UNCHANGED <<app, debug, loop_pc, workers, appended>>

SpecLabel == EInit /\ [][LParseLabel]_vars

\* The trimmed text before the first colon of a line; None without a colon.
LabelBeforeColon(line) ==
    With(trim_start(line), LAMBDA trimmed :
    With(find(trimmed, ":"), LAMBDA colon :
        IF IsSome(colon)
        THEN Some(trim(SubSeq(trimmed, 1, Unwrap(colon) - 1)))
        ELSE None))

\* The acceptance conditions with the length counted in characters.
IsSpeakerLabel(label) ==
    /\ Len(label) > 0
    /\ Len(label) <= 40
    /\ \E i \in 1..Len(label) : is_alphabetic(CharAt(label, i))
    /\ \A i \in 1..Len(label) :
          \/ is_alphanumeric(CharAt(label, i))
          \/ CharAt(label, i) \in {" ", "'", "-"}

\* The line was taken as continuation text of the open (Narrator) block.
IsContinuation(state, line) ==
    /\ state.entries = <<>>
    /\ state.current_text = line
    /\ state.current_speaker = Some("Narrator")

\* C30: parse_speaker_label accepts a line exactly when the trimmed text
\* before its first colon is non-empty, at most 40 characters long, has an
\* alphabetic character and holds only alphanumerics, spaces, apostrophes
\* and hyphens; every other line becomes continuation text.
C30_LabelAcceptance ==
    lastCall.op = "parse_speaker_label" =>
        With(LabelBeforeColon(lastCall.line), LAMBDA label :
            /\ IsSome(lastCall.out)
                 <=> (IsSome(label) /\ IsSpeakerLabel(Unwrap(label)))
            /\ ~(IsSome(label) /\ IsSpeakerLabel(Unwrap(label)))
                 => IsContinuation(lastCall.state, lastCall.line))

(****************** the reply parser on longer replies *********************)
MaxBlockLines == 3

\* Lines of a reply: labelled, unlabelled, of a disallowed speaker, with an
\* empty remainder, and with narration under a character's label.
BlockLines ==
    { "Clerk: Hello.",
      "PLAYER: I leave.",
      "plain text",
      "Narrator: Dark.",
      "Clerk:",
      "Clerk: You run? No! Stop. Now",
      "Clerk: You step out",
      "clerk: You grab it. You pick it." }

\* Speakers and texts handed to push_or_merge_entry.
MergeSpeakers == {"CLERK", "Narrator", "Bob"}
MergeTexts == {"Bye. ", " "}

\* parse_speaker_lines on a reply of up to MaxBlockLines lines.
BParse ==
    /\ lastCall.op = "new"
    /\ \E ls \in SeqsUpTo(BlockLines, MaxBlockLines) \ {<<>>} :
         lastCall' = [op     |-> "parse_speaker_lines",
                      n      |-> 0,
                      ls     |-> ls,
                      text   |-> join(ls, "\n"),
                      parsed |-> parse_speaker_lines(join(ls, "\n"))]
    /\ UNCHANGED <<app, debug, loop_pc, workers, appended>>

\* push_or_merge_entry on the blocks of a parse.
BPushOrMerge ==
    /\ lastCall.op = "parse_speaker_lines"
    /\ \E speaker \in MergeSpeakers, text \in MergeTexts :
         lastCall' = [op      |-> "push_or_merge_entry",
                      n       |-> 0,
                      entries |-> lastCall.parsed.entries,
                      speaker |-> speaker,
                      text    |-> text,
                      out     |-> push_or_merge_entry(lastCall.parsed.entries,
                                                      speaker, text)]
    /\ UNCHANGED <<app, debug, loop_pc, workers, appended>>

BNext ==
    \/ BParse
    \/ BPushOrMerge

SpecBlocks == EInit /\ [][BNext]_vars

(****************** claims on the parse of longer replies ******************)
\* The line carries the label of a disallowed speaker.
DisallowedLine(line) ==
    /\ IsSome(Label(line))
    /\ to_lowercase(Unwrap(Label(line)).speaker) \in DisallowedLabels

Without(ls, i) == SubSeq(ls, 1, i - 1) \o SubSeq(ls, i + 1, Len(ls))

\* C31: a line with a disallowed label leaves no trace in the parse: the
\* blocks and the trailing speaker are those of the reply without that line
\* (so the line closes no block and a later unlabelled line continues the
\* block open before it), and no block holds the line.
C31_DisallowedLineDropped ==
    lastCall.op = "parse_speaker_lines" =>
        /\ \A i \in 1..Len(lastCall.ls) :
             DisallowedLine(lastCall.ls[i]) =>
               /\ lastCall.parsed
                    = parse_speaker_lines(join(Without(lastCall.ls, i), "\n"))
               /\ \A k \in 1..Len(lastCall.parsed.entries) :
                    ~contains(lastCall.parsed.entries[k].text, lastCall.ls[i])
        /\ lastCall.ls = <<"Clerk: Hello.", "PLAYER: I leave.", "plain text">> =>
             lastCall.parsed = [entries      |-> <<ParsedEntry("Clerk", "Hello.\nplain text")>>,
                                last_speaker |-> Some("Clerk")]

\* A dropped line stood between the Clerk's line and an unlabelled line.
C31_Witness ==
    /\ lastCall.op = "parse_speaker_lines"
    /\ lastCall.ls = <<"Clerk: Hello.", "PLAYER: I leave.", "plain text">>
    /\ lastCall.parsed.entries = <<ParsedEntry("Clerk", "Hello.\nplain text")>>

\* No block is empty and no two neighbouring blocks have the same speaker,
\* letter case aside.
WellFormedBlocks(entries) ==
    /\ \A k \in 1..Len(entries) : Len(entries[k].text) > 0
    /\ \A k \in 1..(Len(entries) - 1) :
         to_lowercase(entries[k].speaker) # to_lowercase(entries[k + 1].speaker)

\* C32: the blocks parse_speaker_lines returns have no empty text and no two
\* neighbours of the same speaker, letter case aside; and a block pushed
\* behind a block of the same speaker is merged into it: the earlier text, a
\* newline, then the later text, under the earlier block's label.
C32_BlocksMergedAndNonEmpty ==
    /\ lastCall.op = "parse_speaker_lines" => WellFormedBlocks(lastCall.parsed.entries)
    /\ lastCall.op = "push_or_merge_entry" =>
         LET entries == lastCall.entries
             last    == entries[Len(entries)]
             later   == trim_end(lastCall.text)
         IN  /\ WellFormedBlocks(lastCall.out)
             /\ (/\ Len(entries) > 0
                 /\ Len(later) > 0
                 /\ to_lowercase(last.speaker) = to_lowercase(lastCall.speaker)) =>
                  lastCall.out =
                    SubSeq(entries, 1, Len(entries) - 1)
                      \o <<ParsedEntry(last.speaker, last.text \o "\n" \o later)>>

\* A block of CLERK was pushed behind a block of the Clerk and merged into it.
C32_Witness ==
    /\ lastCall.op = "push_or_merge_entry"
    /\ lastCall.entries = <<ParsedEntry("Narrator", "Dark."), ParsedEntry("Clerk", "Hello.")>>
    /\ lastCall.speaker = "CLERK"
    /\ lastCall.text = "Bye. "
    /\ lastCall.out = <<ParsedEntry("Narrator", "Dark."), ParsedEntry("Clerk", "Hello.\nBye.")>>

\* The line carries the label of a speaker other than the Narrator (and not a
\* disallowed one), and its remainder begins with "you " and an action verb
\* and holds no quotation mark.
MisattributedWithoutQuote(line) ==
    /\ IsSome(Label(line))
    /\ to_lowercase(Unwrap(Label(line)).speaker) \notin (DisallowedLabels \cup {"narrator"})
    /\ starts_with_you_action(Unwrap(Label(line)).rest)
    /\ ~contains(Unwrap(Label(line)).rest, "\"")

\* The positions in t where ". ", "? " or "! " begins.
BoundariesIn(t) ==
    {p \in 1..(Len(t) - 1) : SubSeq(t, p, p + 1) \in {". ", "? ", "! "}}

EarliestBoundary(t) == CHOOSE p \in BoundariesIn(t) : \A q \in BoundariesIn(t) : p <= q

\* The first sentence of t with its punctuation mark, or all of t when it has
\* no boundary.
FirstSentence(t) ==
    IF BoundariesIn(t) = {} THEN t ELSE SubSeq(t, 1, EarliestBoundary(t))

\* What follows the first sentence of t, "" when nothing does.
AfterFirstSentence(t) ==
    IF BoundariesIn(t) = {} THEN ""
    ELSE trim(SubSeq(t, EarliestBoundary(t) + 2, Len(t)))

\* C33: a line labelled with a speaker S other than the Narrator whose
\* remainder begins with "you " and an action verb and holds no quotation
\* mark is split at the earliest of ". ", "? ", "! ": the first sentence, with
\* its punctuation mark, goes to a Narrator block and the rest, if there is
\* any, opens the block of S right behind it; without a boundary the whole
\* remainder goes to the Narrator and no block of S is opened.  When the line
\* is the last of the reply these are the last blocks of the parse.
C33_FirstSentenceSplit ==
    lastCall.op = "parse_speaker_lines" =>
        LET ls      == lastCall.ls
            entries == lastCall.parsed.entries
            n       == Len(lastCall.parsed.entries)
        IN  \A i \in 1..Len(ls) :
              MisattributedWithoutQuote(ls[i]) =>
                LET S     == Unwrap(Label(ls[i])).speaker
                    t     == trim(Unwrap(Label(ls[i])).rest)
                    first == FirstSentence(t)
                    rest  == AfterFirstSentence(t)
                IN  /\ \E k \in 1..n :
                         /\ entries[k].speaker = "Narrator"
                         /\ contains(entries[k].text, first)
                         /\ Len(rest) > 0 =>
                              /\ k < n
                              /\ entries[k + 1].speaker = S
                              /\ starts_with(entries[k + 1].text, rest)
                    /\ (i = Len(ls) /\ Len(rest) > 0) =>
                         /\ entries[n] = ParsedEntry(S, rest)
                         /\ entries[n - 1].speaker = "Narrator"
                         /\ ends_with(entries[n - 1].text, first)
                         /\ lastCall.parsed.last_speaker = Some(S)
                    /\ (i = Len(ls) /\ Len(rest) = 0) =>
                         /\ entries[n].speaker = "Narrator"
                         /\ ends_with(entries[n].text, first)
                         /\ lastCall.parsed.last_speaker = Some("Narrator")
                    /\ Len(ls) = 1 =>
                         entries = <<ParsedEntry("Narrator", first)>>
                                     \o (IF Len(rest) > 0 THEN <<ParsedEntry(S, rest)>>
                                         ELSE <<>>)

\* A remainder whose earliest boundary is "? " was split there, and one
\* without a boundary went to the Narrator whole.
C33_Witness ==
    /\ lastCall.op = "parse_speaker_lines"
    /\ lastCall.ls = <<"Clerk: You step out", "Clerk: You run? No! Stop. Now">>
    /\ lastCall.parsed.entries = <<ParsedEntry("Narrator", "You step out\nYou run?"),
                                   ParsedEntry("Clerk", "No! Stop. Now")>>

\* The line carries a label and is not dropped: it closes the open block and
\* opens the next.
OpensBlock(line) == IsSome(Label(line)) /\ ~DisallowedLine(line)

\* The block opened last got some text: the remainder of the last line that
\* opens a block is not blank, or a line that is not dropped and not blank
\* follows it.
LastOpenedHasText(ls) ==
    LET opening == {i \in 1..Len(ls) : OpensBlock(ls[i])}
        m       == CHOOSE i \in opening : \A j \in opening : j <= i
    IN  opening # {} =>
          \/ Len(trim(Unwrap(Label(ls[m])).rest)) > 0
          \/ \E j \in (m + 1)..Len(ls) : ~DisallowedLine(ls[j]) /\ Len(trim(ls[j])) > 0

\* C34 as stated: whenever the parse has at least one block, the candidate
\* trailing speaker is present and is, letter case aside, the speaker of the
\* last block.
C34_TrailingSpeakerIsLastBlock ==
    (lastCall.op = "parse_speaker_lines" /\ Len(lastCall.parsed.entries) >= 1) =>
        /\ IsSome(lastCall.parsed.last_speaker)
        /\ to_lowercase(Unwrap(lastCall.parsed.last_speaker))
             = to_lowercase(lastCall.parsed.entries[Len(lastCall.parsed.entries)].speaker)

\* C34, amended: whenever the parse has at least one block, the candidate
\* trailing speaker is present; it is, letter case aside, the speaker of the
\* last block provided the block opened last got some text, that is, the
\* last label that is not dropped is followed by text on its line or on a
\* later line.
C34_TrailingSpeakerWhenLastBlockHasText ==
    (lastCall.op = "parse_speaker_lines" /\ Len(lastCall.parsed.entries) >= 1) =>
        /\ IsSome(lastCall.parsed.last_speaker)
        /\ LastOpenedHasText(lastCall.ls) =>
             to_lowercase(Unwrap(lastCall.parsed.last_speaker))
               = to_lowercase(lastCall.parsed.entries[Len(lastCall.parsed.entries)].speaker)

\* The reply ended with text under the label clerk, behind narration that was
\* split off: the trailing speaker is the one of the last block.
C34_Witness ==
    /\ lastCall.op = "parse_speaker_lines"
    /\ lastCall.ls = <<"Clerk: Hello.", "clerk: You grab it. You pick it.", "plain text">>
    /\ Len(lastCall.parsed.entries) = 3
    /\ lastCall.parsed.entries[3] = ParsedEntry("clerk", "You pick it.\nplain text")
    /\ lastCall.parsed.last_speaker = Some("clerk")

(************ replies, player input, commands and resets on an App *********)
MaxSpeakerCalls == 3

\* Replies of the service: ending on the Narrator, on a character, on a
\* disallowed label, on a label without text, and without any label.
SpeakerReplies ==
    { "Narrator: Dark.",
      "Clerk: Hello.",
      "NARRATOR : Dark.\nYou: hi",
      "Clerk: Hello.\nPlayer: run",
      "plain text\nBob:",
      "User: x" }

\* What the player types before Enter: an action, an exit cue, commands.
SpeakerLines == {"hi", "leave now", "/new", "/flag a"}

SpeakerKeys ==
    {Append(CharKeys(line), Key("Enter", "", FALSE)) : line \in SpeakerLines}
    \cup {<<Key("Char", "n", TRUE)>>}

\* App::push_assistant_reply on a reply of the service.
KReply ==
    /\ lastCall.n < MaxSpeakerCalls
    /\ \E reply \in SpeakerReplies :
         /\ app' = push_assistant_reply(app, reply)
         /\ lastCall' = [op |-> "push_assistant_reply", n |-> lastCall.n + 1, text |-> reply]
    /\ UNCHANGED <<debug, loop_pc, workers, appended>>

\* handle_key_event on the keys of a line and Enter, or on Ctrl-N.
KKeys ==
    /\ lastCall.n < MaxSpeakerCalls
    /\ \E keys \in SpeakerKeys :
         /\ app' = handle_keys(app, keys).app
         /\ lastCall' = [op |-> "handle_key_event", n |-> lastCall.n + 1, text |-> typed(keys)]
    /\ UNCHANGED <<debug, loop_pc, workers, appended>>

KNext ==
    \/ KReply
    \/ KKeys

SpecSpeaker == EInit /\ [][KNext]_vars

NeverActiveLabels == {"narrator", "you", "player", "user"}

\* C35: in every reachable state active_speaker is None or a label that is
\* not, letter case aside, Narrator, You, Player or User, whatever replies,
\* player inputs, commands and resets came before.
C35_ActiveSpeakerIsCharacter ==
    IsSome(app.state.active_speaker) =>
        to_lowercase(trim(Unwrap(app.state.active_speaker))) \notin NeverActiveLabels

\* The Clerk became the active speaker through a reply whose last line had
\* a disallowed label, after an earlier reply and an input.
C35_Witness ==
    /\ lastCall.op = "push_assistant_reply"
    /\ lastCall.n = MaxSpeakerCalls
    /\ lastCall.text = "Clerk: Hello.\nPlayer: run"
    /\ app.state.active_speaker = Some("Clerk")
    /\ \E i \in 1..Len(app.log) : app.log[i].kind = "User"

(******************* claims on the loop of the session, II *****************)
\* C36: in every reachable state of the control loop busy is true exactly
\* when the App holds the handle of a pending turn response; there is no
\* state with busy set and no handle.
C36_BusyIffHandle == app.busy <=> IsSome(app.pending_response)

\* A reset came while a turn was outstanding: the worker still runs, and the
\* App is neither busy nor holds a handle.
C36_Witness ==
    /\ lastCall.op = "handle_key_event"
    /\ lastCall.reset
    /\ \E w \in 1..Len(workers) : Running(w) /\ workers[w].stale
    /\ ~app.busy
    /\ ~IsSome(app.pending_response)

\* C37: every turn that completes successfully adds at least one Assistant
\* entry to the log: the step in which the loop takes an Ok result appends an
\* entry of kind Assistant holding the trimmed reply, whatever the reply is.
C37_SuccessAddsAssistantEntry ==
    [][(ReceivesOk /\ loop_pc' # loop_pc) =>
         /\ Len(AssistantEntries(app'.log)) >= Len(AssistantEntries(app.log)) + 1
         /\ IsPrefix(Append(app.log, [kind    |-> "Assistant",
                                      speaker |-> None,
                                      text    |-> trim(Received.text)]),
                     app'.log)]_vars

\* The loop took a reply of white space alone and logged an empty Assistant
\* entry for it.
C37_Witness ==
    /\ app.state.turn = 1
    /\ ~app.busy
    /\ \E i \in 1..Len(app.log) : app.log[i] = [kind |-> "Assistant", speaker |-> None, text |-> ""]

\* The chunk is the one item of something the player typed.
IsUserChunk(chunk) == Len(chunk) = 1 /\ chunk[1].role = "user"

\* C38: a failed turn does not roll back the history.  In the step in which
\* the loop takes a failure the history stays exactly as it is; it still
\* starts with the history the failing worker was started with, that turn's
\* user chunk included, and holds nothing but user chunks behind it (no
\* response chunk for the failed turn); and the worker the loop starts next
\* takes the whole history along, both user inputs included.
C38_FailureKeepsHistory ==
    /\ [][(ReceivesFailure /\ loop_pc' # loop_pc) =>
            LET sent == workers[Unwrap(app.pending_response)].history
            IN  /\ app'.history = app.history
                /\ \E i \in 1..Len(sent) : IsUserChunk(sent[i])
                /\ IsPrefix(sent, app'.history)
                /\ \A i \in (Len(sent) + 1)..Len(app'.history) :
                     IsUserChunk(app'.history[i])]_vars
    /\ [][(loop_pc = "turn" /\ ~app.busy /\ IsSome(app.pending_input)
             /\ loop_pc' # loop_pc) =>
            workers'[Len(workers')].history = app.history]_vars
    /\ [](\A w \in 1..Len(workers) :
            Len(workers[w].requests) >= 1 =>
              workers[w].requests[1].input
                = <<workers[w].requests[1].input[1]>> \o flatten(workers[w].history))

\* A turn failed, the player typed again, and the request of the next turn
\* carries the user items of both turns.
C38_Witness ==
    /\ app.state.turn = 0
    /\ \E i, j, k \in 1..Len(app.log) :
         /\ i < j /\ j < k
         /\ app.log[i].kind = "User"
         /\ app.log[j].kind = "Error"
         /\ app.log[k].kind = "User"
    /\ app.pending_response = Some(Len(workers))
    /\ Len(workers[Len(workers)].history) = 2
    /\ Len(workers[Len(workers)].requests) >= 1
    /\ SubSeq(workers[Len(workers)].requests[1].input, 2, 3)
         = <<user_item("go"), user_item("go")>>

\* C39: every successful turn appends a response chunk to the history:
\* whenever advance_turn returns text the output items it returns are not
\* empty, also when the text is the top-level output_text, and the loop
\* appends them to the history as one chunk.
C39_SuccessAppendsChunk ==
    \A w \in 1..Len(workers) :
        (workers[w].returned /\ Unwrap(workers[w].result).ok) =>
            /\ Len(Unwrap(workers[w].result).items) > 0
            /\ on_try_recv(app, RecvOk(Unwrap(workers[w].result)), debug).history
                 = Append(app.history, Unwrap(workers[w].result).items)

(****************** the session with workers that finish *******************)
MaxLiveSubmits == 2

\* As SKeyEvent, for a player who submits at most MaxLiveSubmits lines.
LKeyEvent ==
    /\ loop_pc = "event"
    /\ lastCall.n < MaxLiveSubmits
    /\ \E max_scroll \in 0..MaxOverflow, keys \in SessionKeys :
         LET drawn == draw_ui(app, max_scroll)
             r     == handle_keys(drawn, keys)
             ws    == drop_receiver(workers, drawn.pending_response, r.app.pending_response)
         IN  /\ app' = r.app
             /\ loop_pc' = IF r.quit THEN "done" ELSE "turn"
             /\ workers' = release_ended(IF key_resets(drawn, keys)
                                          THEN mark_stale(ws) ELSE ws)
             /\ lastCall' = [op    |-> "handle_key_event",
                             n     |-> lastCall.n + 1,
                             text  |-> typed(keys),
                             reset |-> key_resets(drawn, keys)]
    /\ UNCHANGED <<debug, appended>>

\* One step of the loop of run_app.
LoopStep ==
    \/ LoopNoEvent
    \/ LKeyEvent
    \/ LoopPollResponse
    \/ LoopStartTurn
    \/ LoopIdle

\* One step of the thread of worker w: a request answered, or a panic.
WorkerStep(w) ==
    /\ w \in 1..Len(workers)
    /\ SWorkerAttempt(w) \/ WorkerPanic(w)

LNext ==
    \/ LoopNoEvent
    \/ LKeyEvent
    \/ LoopPollResponse
    \/ LoopStartTurn
    \/ LoopIdle
    \/ \E w \in 1..Len(workers) : SWorkerAttempt(w)
    \/ \E w \in 1..Len(workers) : WorkerPanic(w)

\* The loop keeps iterating until the player quits, and every thread that was
\* spawned keeps running until it has sent its result or has died.
SpecLive ==
    /\ Init
    /\ [][LNext]_vars
    /\ WF_vars(LoopStep)
    /\ \A w \in 1..MaxLiveSubmits : WF_vars(WorkerStep(w))

\* The loop polls a pending handle whose channel is still empty.
PollsEmpty ==
    /\ loop_pc = "turn"
    /\ app.busy
    /\ IsSome(app.pending_response)
    /\ try_recv(Unwrap(app.pending_response)).kind = "Empty"

\* C40: if every worker that was started sends a result or drops its channel
\* in the end and the loop keeps iterating, busy, once true, becomes false
\* again (or the player has quit); and the loop never waits on a worker: a
\* poll that finds the channel empty leaves the App as it is and ends the
\* iteration, and as long as the player has not quit a step of the loop is
\* possible whatever the workers are doing.
C40_BusyEnds ==
    /\ app.busy ~> (~app.busy \/ loop_pc = "done")
    /\ [][(PollsEmpty /\ loop_pc' # loop_pc) => (app' = app /\ loop_pc' = "event")]_vars
    /\ [](loop_pc # "done" => ENABLED LoopStep)

\* A worker died without sending while the loop was busy with it, and the
\* loop is no longer busy.
C40_Witness ==
    /\ ~app.busy
    /\ \E i \in 1..Len(app.log) :
         app.log[i] = [kind |-> "Error", speaker |-> None,
                       text |-> "Response channel disconnected."]

====
